---- MODULE Spec2Model ----
(***************************************************************************)
(* Incremental layout graph of src/FactorioGraph.vue: visual nodes for     *)
(* things and recipes, their adjacency lists, the name-keyed indices, the  *)
(* two-phase insertion (topology, then positions after a render tick),     *)
(* removal with cascade pruning, and drag-to-reposition.                   *)
(*                                                                         *)
(* Array positions are JavaScript positions: they start at 0 and indexOf   *)
(* answers -1 for an absent element.  Node objects have an identity of     *)
(* their own (an id drawn from a counter), independent of their name, so   *)
(* that two nodes of the same name are different nodes.                    *)
(*                                                                         *)
(* Lengths are JavaScript numbers, for which halving is exact.  They are   *)
(* counted here in units of 1/Scale pixel, Scale a power of two large      *)
(* enough for every chain of halvings the bounded runs can build.          *)
(***************************************************************************)
EXTENDS Integers, Sequences, FiniteSets, TLC

\* ---------------------------------------------------------------- bounds
MaxIds == 6        \* node objects created in one run
MaxDrags == 1      \* pointer-down gestures in one run

Scale == 2 ^ (MaxIds + 1)
Px(n) == n * Scale
Half(x) == x \div 2

\* ------------------------------------------------------ program constants
TopMargin == 20
NeighborGap == 50
SiblingGap == 20
ControlOffset == 50

\* ------------------------------------------------------------ inputs
\* Size <<offsetWidth, offsetHeight>> the browser gives to the element of a
\* node, by kind: div.node adds 2 of padding and 2 of border on each side
\* of its content, which is a button above the 32x32 image for a recipe
\* and a button on each side of the image for a thing.
ElementSizes == [recipe |-> <<Px(40), Px(60)>>, thing |-> <<Px(75), Px(40)>>]
\* Content-box sizes <<width, height>> the container can be observed with.
ContainerSizes == {<<Px(800), Px(600)>>, <<Px(60), Px(70)>>}
\* Sizes of a container that has no height yet; they are observed only
\* before the first size with a width and a height, and only where the
\* functions of the component are called directly.
UnmeasuredSizes == {<<Px(800), 0>>}
\* Pointer coordinates <<clientX, clientY>> of pointer events: where a node
\* is grabbed, and where the pointer is moved to (back on the grab point,
\* or 25 to the left and 70 down of it).
GrabPositions == {<<Px(35), Px(40)>>}
PointerPositions == {<<Px(35), Px(40)>>, <<Px(10), Px(110)>>}

\* Game definitions (GameDefinition.transformations, in file order).
GameDefinitions ==
  [base |->
     << [name |-> "copper-cable",
         ingredients |-> <<"copper-plate">>,
         products |-> <<"copper-cable">>],
        [name |-> "electronic-circuit",
         ingredients |-> <<"iron-plate", "copper-cable">>,
         products |-> <<"electronic-circuit">>],
        [name |-> "electronic-circuit-recycling",
         ingredients |-> <<"electronic-circuit">>,
         products |-> <<"iron-plate", "copper-cable">>] >>,
   modded |->
     << [name |-> "electronic-circuit",
         ingredients |-> <<"copper-cable">>,
         products |-> <<"electronic-circuit", "electronic-circuit">>],
        [name |-> "cable-enrichment",
         ingredients |-> <<"copper-cable", "electronic-circuit">>,
         products |-> <<"copper-cable">>],
        [name |-> "wooden-chest",
         ingredients |-> <<"wood">>,
         products |-> <<"wooden-chest">>] >>]

GameNames == DOMAIN GameDefinitions

\* ------------------------------------------------------ sequence helpers
Range(s) == {s[i] : i \in 1..Len(s)}

\* Array.prototype.indexOf: position of the first occurrence, -1 if none.
IndexOf(s, x) ==
  IF \E i \in 1..Len(s) : s[i] = x
  THEN (CHOOSE i \in 1..Len(s) : s[i] = x /\ \A j \in 1..(i - 1) : s[j] # x) - 1
  ELSE -1

\* Array.prototype.splice(start, 1): a negative start counts from the end.
Splice1_SwapLast(s, start) ==
  LET from == IF start < 0
              THEN (IF Len(s) + start < 0 THEN 0 ELSE Len(s) + start)
              ELSE start
  IN IF from >= Len(s) THEN s
     ELSE [i \in 1..(Len(s) - 1) |-> IF i = from + 1 THEN s[Len(s)] ELSE s[i]]
Splice1(s, start) ==
  LET from == IF start < 0
              THEN (IF Len(s) + start < 0 THEN 0 ELSE Len(s) + start)
              ELSE start
  IN IF from >= Len(s) THEN s
     ELSE [i \in 1..(Len(s) - 1) |-> IF i <= from THEN s[i] ELSE s[i + 1]]

\* s[i] for a JavaScript position i known to be in range.
At(s, i) == s[i + 1]

Count(s, x) == Cardinality({i \in 1..Len(s) : s[i] = x})

Max(S) == CHOOSE m \in S : \A o \in S : o <= m
Min(S) == CHOOSE m \in S : \A o \in S : m <= o

\* ------------------------------------------------------------ Game.make
\* recipes: the recipes of a definition by name.
makeRecipes(g) ==
  LET def == GameDefinitions[g]
  IN [n \in {def[i].name : i \in 1..Len(def)} |->
        LET r == def[CHOOSE i \in 1..Len(def) :
                       def[i].name = n /\ \A j \in (i + 1)..Len(def) : def[j].name # n]
        IN [name |-> n, ingredients |-> r.ingredients, products |-> r.products]]

makeThingNames(g) ==
  UNION {Range(makeRecipes(g)[n].ingredients) \cup Range(makeRecipes(g)[n].products) :
           n \in DOMAIN makeRecipes(g)}

\* The recipe names in the order of Object.values(recipes): first insertion.
RecipeOrder(g) ==
  LET def == GameDefinitions[g]
      first == {i \in 1..Len(def) : \A j \in 1..(i - 1) : def[j].name # def[i].name}
      F[k \in 0..Len(def)] ==
        IF k = 0 THEN <<>>
        ELSE IF k \in first THEN Append(F[k - 1], def[k].name) ELSE F[k - 1]
  IN F[Len(def)]

\* thing.ingredientOf: one entry per occurrence of the thing among the
\* ingredients of a recipe, recipes taken in RecipeOrder.
RECURSIVE Occurrences_Once(_, _, _)
Occurrences_Once(list, thing, recipeName) ==
  IF thing \in Range(list) THEN <<recipeName>> ELSE <<>>
RECURSIVE Occurrences(_, _, _)
Occurrences(list, thing, recipeName) ==
  IF list = <<>> THEN <<>>
  ELSE (IF Head(list) = thing THEN <<recipeName>> ELSE <<>>)
         \o Occurrences(Tail(list), thing, recipeName)

makeIngredientOf(g, thing) ==
  LET order == RecipeOrder(g)
      F[k \in 0..Len(order)] ==
        IF k = 0 THEN <<>>
        ELSE F[k - 1] \o Occurrences(makeRecipes(g)[order[k]].ingredients, thing, order[k])
  IN F[Len(order)]

makeProductOf(g, thing) ==
  LET order == RecipeOrder(g)
      F[k \in 0..Len(order)] ==
        IF k = 0 THEN <<>>
        ELSE F[k - 1] \o Occurrences(makeRecipes(g)[order[k]].products, thing, order[k])
  IN F[Len(order)]

\* The games the application can hand to the component, each made once.
Games ==
  [g \in GameNames |->
     [recipes |-> makeRecipes(g),
      things |-> [thing \in makeThingNames(g) |->
                    [ingredientOf |-> makeIngredientOf(g, thing),
                     productOf |-> makeProductOf(g, thing)]]]]

Recipes(g) == Games[g].recipes
ThingNames(g) == DOMAIN Games[g].things
IngredientOf(g, thing) == Games[g].things[thing].ingredientOf
ProductOf(g, thing) == Games[g].things[thing].productOf

\* -------------------------------------------------------- Game.makeGame
\* Raw data (DataRaw): the names of the item and fluid prototypes, and the
\* recipe prototypes in the order of Object.entries(dataRaw.recipe).
\* `recycling` is name.includes('recycling').  The recipe "assemble" takes
\* every list of at most MaxEntries names, one of which ("steam") is no
\* prototype, as its ingredients and as its results.
MaxEntries == 2
EntryNames == {"plate", "steam"}
EntryLists == UNION {[1..n -> EntryNames] : n \in 0..MaxEntries}

DataRaws ==
  {[item |-> {"plate", "gear"},
    fluid |-> {"water"},
    recipe |-> << [name |-> "assemble", recycling |-> FALSE,
                   ingredients |-> ingredients, results |-> results],
                  [name |-> "gear-recycling", recycling |-> TRUE,
                   ingredients |-> <<"gear">>, results |-> <<"plate", "plate">>],
                  [name |-> "gear", recycling |-> FALSE,
                   ingredients |-> <<"plate", "water", "plate">>,
                   results |-> <<"gear">>] >>] :
     ingredients \in EntryLists, results \in EntryLists}

\* `.map(p => ({thing: things[p.name]})).filter(x => x.thing !== undefined)`
RECURSIVE KnownThings(_, _)
KnownThings(list, things) ==
  IF list = <<>> THEN <<>>
  ELSE (IF Head(list) \in things THEN <<Head(list)>> ELSE <<>>)
         \o KnownThings(Tail(list), things)

\* The names of the recipes kept by the 'recycling' filter, in the order
\* of Object.values(recipes).
RECURSIVE makeGameOrder(_)
makeGameOrder(prototypes) ==
  IF prototypes = <<>> THEN <<>>
  ELSE (IF Head(prototypes).recycling THEN <<>> ELSE <<Head(prototypes).name>>)
         \o makeGameOrder(Tail(prototypes))

makeGame(dataRaw) ==
  LET things == dataRaw.item \cup dataRaw.fluid
      order == makeGameOrder(dataRaw.recipe)
      recipes ==
        [n \in Range(order) |->
           LET r == dataRaw.recipe[CHOOSE i \in 1..Len(dataRaw.recipe) :
                                     dataRaw.recipe[i].name = n]
           IN [name |-> n,
               ingredients |-> KnownThings(r.ingredients, things),
               products |-> KnownThings(r.results, things)]]
      ingredientOf[k \in 0..Len(order)] ==
        [thing \in things |->
           IF k = 0 THEN <<>>
           ELSE ingredientOf[k - 1][thing]
                  \o Occurrences(recipes[order[k]].ingredients, thing, order[k])]
      productOf[k \in 0..Len(order)] ==
        [thing \in things |->
           IF k = 0 THEN <<>>
           ELSE productOf[k - 1][thing]
                  \o Occurrences(recipes[order[k]].products, thing, order[k])]
  IN [recipes |-> recipes,
      things |-> [thing \in things |->
                    [ingredientOf |-> ingredientOf[Len(order)][thing],
                     productOf |-> productOf[Len(order)][thing]]]]

\* ------------------------------------------------------------- state
VARIABLES
  game,          \* props.game: the name of the current game
  nodes,         \* the node sequence, as a sequence of node ids
  heap,          \* the node objects: id -> GraphNode
  recipeNodes,   \* recipe name -> node id
  thingNodes,    \* thing name -> node id
  nextId,        \* ids of the node objects created so far are 0..nextId-1
  nodeElements,  \* rendered elements, one per node of the last render
  width,         \* container content width
  height,        \* container content height
  initialWatch,  \* the size watcher of the first measurement is still active
  moving,        \* drag session, or NotMoving
  pending,       \* nodesToPosition of the addRecipe calls awaiting nextTick
  drags,         \* pointer-down gestures so far
  drawn,         \* the canvas: <<origin index, destination index>> of each curve of its path
  boxes,         \* the canvas: what the pass that drew the path read of each node
  createdBy,     \* history: node id -> recipe node id of the addRecipe call that created it
  last           \* history: the last handler that ran, with the graph it started from

vars == <<game, nodes, heap, recipeNodes, thingNodes, nextId, nodeElements,
          width, height, initialWatch, moving, pending, drags, drawn, boxes, createdBy,
          last>>

NotMoving == [node |-> -1]
EmptyMap == [n \in {} |-> 0]

\* The graph part of the state, threaded through the handlers.
Graph == [nodes |-> nodes, heap |-> heap, recipeNodes |-> recipeNodes,
          thingNodes |-> thingNodes, nextId |-> nextId]

\* positioned is history: how many times a continuation of addRecipe has
\* assigned left and top.
GraphNode(kind, name) ==
  [left |-> 0, top |-> 0, kind |-> kind, name |-> name,
   leftNeighbors |-> <<>>, rightNeighbors |-> <<>>, positioned |-> 0]

\* ------------------------------------------------------------ addRecipe
\* The ingredient loop (side = "ingredient") or the product loop
\* (side = "product") of addRecipe: find or create the node of each thing
\* and link it with the new recipe node, one link per list entry.
\* `thingNodes[name] === undefined`
ThingAbsent_Always(G, thing) == TRUE
ThingAbsent(G, thing) == thing \notin DOMAIN G.thingNodes

\* The two pushes that link a thing node and the new recipe node.
Link_OneWay(h, thingNode, recipeNode, side) ==
  IF side = "ingredient"
  THEN [h EXCEPT ![thingNode].rightNeighbors = Append(@, recipeNode),
                 ![recipeNode].leftNeighbors = Append(@, thingNode)]
  ELSE [h EXCEPT ![thingNode].leftNeighbors = Append(@, recipeNode)]
Link(h, thingNode, recipeNode, side) ==
  IF side = "ingredient"
  THEN [h EXCEPT ![thingNode].rightNeighbors = Append(@, recipeNode),
                 ![recipeNode].leftNeighbors = Append(@, thingNode)]
  ELSE [h EXCEPT ![thingNode].leftNeighbors = Append(@, recipeNode),
                 ![recipeNode].rightNeighbors = Append(@, thingNode)]

\* `nodesToPosition.push(...)`, inside the branch that creates the node.
ToPosition_Always(nodesToPosition, absent, thingNodeIndex) ==
  Append(nodesToPosition, thingNodeIndex)
ToPosition(nodesToPosition, absent, thingNodeIndex) ==
  IF absent THEN Append(nodesToPosition, thingNodeIndex) ELSE nodesToPosition

RECURSIVE LinkThings(_, _, _, _, _)
LinkThings(G, nodesToPosition, things, newRecipeNode, side) ==
  IF things = <<>> THEN [graph |-> G, nodesToPosition |-> nodesToPosition]
  ELSE
    LET thing == Head(things)
        absent == ThingAbsent(G, thing)
        newThingNodeIndex == Len(G.nodes)
        thingNode == IF absent THEN G.nextId ELSE G.thingNodes[thing]
        G1 == IF absent
              THEN [G EXCEPT !.nodes = Append(@, thingNode),
                             !.heap = (thingNode :> GraphNode("thing", thing)) @@ @,
                             !.thingNodes = (thing :> thingNode) @@ @,
                             !.nextId = @ + 1]
              ELSE G
        thingNodeIndex == IF absent THEN newThingNodeIndex ELSE IndexOf(G.nodes, thingNode)
        toPosition1 == ToPosition(nodesToPosition, absent, thingNodeIndex)
        G2 == [G1 EXCEPT !.heap = Link(@, thingNode, newRecipeNode, side)]
    IN LinkThings(G2, toPosition1, Tail(things), newRecipeNode, side)

\* The entry assertion of addRecipe.
AddRecipeAssert_Skip(G, recipeName) == TRUE
AddRecipeAssert(G, recipeName) == recipeName \notin DOMAIN G.recipeNodes

\* The synchronous phase of addRecipe, up to `await nextTick()`: the graph
\* it leaves and the positions of the nodes it created.  A failed entry
\* assertion throws before anything is written.
AddRecipe(G, g, recipeName) ==
  IF ~AddRecipeAssert(G, recipeName)
  THEN [graph |-> G, nodesToPosition |-> <<>>, thrown |-> TRUE]
  ELSE
    LET recipe == Recipes(g)[recipeName]
        newRecipeNodeIndex == Len(G.nodes)
        newRecipeNode == G.nextId
        G1 == [G EXCEPT !.nodes = Append(@, newRecipeNode),
                        !.heap = (newRecipeNode :> GraphNode("recipe", recipe.name)) @@ @,
                        !.recipeNodes = (recipe.name :> newRecipeNode) @@ @,
                        !.nextId = @ + 1]
        afterIngredients ==
          LinkThings(G1, <<newRecipeNodeIndex>>, recipe.ingredients,
                     newRecipeNode, "ingredient")
        afterProducts ==
          LinkThings(afterIngredients.graph, afterIngredients.nodesToPosition,
                     recipe.products, newRecipeNode, "product")
    IN [graph |-> afterProducts.graph,
        nodesToPosition |-> afterProducts.nodesToPosition,
        thrown |-> FALSE]

\* findRecipeProducing / findRecipeConsuming: the first recipe of the list
\* that has no node, "" (null) if there is none.
FirstAbsent_First(G, recipeList) ==
  IF recipeList = <<>> THEN "" ELSE recipeList[1]
FirstAbsent_Last(G, recipeList) ==
  LET absent == {i \in 1..Len(recipeList) : recipeList[i] \notin DOMAIN G.recipeNodes}
  IN IF absent = {} THEN "" ELSE recipeList[Max(absent)]
FirstAbsent(G, recipeList) ==
  LET absent == {i \in 1..Len(recipeList) : recipeList[i] \notin DOMAIN G.recipeNodes}
  IN IF absent = {} THEN "" ELSE recipeList[Min(absent)]

findRecipeProducing_Unrelated(G, g, thingName) ==
  FirstAbsent(G, [k \in 1..Len(GameDefinitions[g]) |->
                    GameDefinitions[g][Len(GameDefinitions[g]) + 1 - k].name])
findRecipeProducing(G, g, thingName) == FirstAbsent(G, ProductOf(g, thingName))
findRecipeConsuming(G, g, thingName) == FirstAbsent(G, IngredientOf(g, thingName))

\* ---------------------------------------------------------------- reset
DefaultRecipe == "electronic-circuit"

Cleared_KeepIndices(G) == [G EXCEPT !.nodes = <<>>]
Cleared(G) == [G EXCEPT !.nodes = <<>>, !.recipeNodes = EmptyMap,
                        !.thingNodes = EmptyMap]

\* reset(): empty the sequence and both indices, then addRecipe of the
\* default recipe (its synchronous phase).
Reset(G, g) == AddRecipe(Cleared(G), g, DefaultRecipe)

\* ------------------------------------------------------ removeRecipeNode
\* for (const left of recipeNode.leftNeighbors) left.rightNeighbors.splice(...)
RECURSIVE UnlinkLeft_First(_, _, _)
UnlinkLeft_First(h, lefts, recipeNode) ==
  IF lefts = <<>> THEN h
  ELSE UnlinkLeft_First(
         [h EXCEPT ![Head(lefts)].rightNeighbors = Splice1(@, 0)],
         Tail(lefts), recipeNode)
RECURSIVE UnlinkLeft(_, _, _)
UnlinkLeft(h, lefts, recipeNode) ==
  IF lefts = <<>> THEN h
  ELSE UnlinkLeft(
         [h EXCEPT ![Head(lefts)].rightNeighbors = Splice1(@, IndexOf(@, recipeNode))],
         Tail(lefts), recipeNode)

\* for (const right of recipeNode.rightNeighbors) right.leftNeighbors.splice(...)
UnlinkRight_Skip(h, rights, recipeNode) == h
RECURSIVE UnlinkRight(_, _, _)
UnlinkRight(h, rights, recipeNode) ==
  IF rights = <<>> THEN h
  ELSE UnlinkRight(
         [h EXCEPT ![Head(rights)].leftNeighbors = Splice1(@, IndexOf(@, recipeNode))],
         Tail(rights), recipeNode)

\* The cascade: a thing of the removed recipe whose node is left without
\* neighbors is removed from the sequence and from the thing index.
\* The test of the cascade on one thing of the removed recipe.
Orphan_LeftOnly(G, thing) ==
  /\ thing \in DOMAIN G.thingNodes
  /\ Len(G.heap[G.thingNodes[thing]].leftNeighbors) = 0
Orphan_RightOnly(G, thing) ==
  /\ thing \in DOMAIN G.thingNodes
  /\ Len(G.heap[G.thingNodes[thing]].rightNeighbors) = 0
Orphan_Never(G, thing) == FALSE
Orphan(G, thing) ==
  /\ thing \in DOMAIN G.thingNodes
  /\ Len(G.heap[G.thingNodes[thing]].leftNeighbors) = 0
  /\ Len(G.heap[G.thingNodes[thing]].rightNeighbors) = 0

\* The things the cascade goes through: [...recipe.ingredients, ...recipe.products]
CascadeThings_Ingredients(recipe) == recipe.ingredients
CascadeThings(recipe) == recipe.ingredients \o recipe.products

RECURSIVE Prune(_, _)
Prune(G, things) ==
  IF things = <<>> THEN G
  ELSE
    LET thing == Head(things)
        thingNode == G.thingNodes[thing]
        G1 == IF Orphan(G, thing)
              THEN [G EXCEPT !.nodes = Splice1(@, IndexOf(@, thingNode)),
                             !.thingNodes = [n \in DOMAIN @ \ {thing} |-> @[n]]]
              ELSE G
    IN Prune(G1, Tail(things))

\* The entry assertion of removeRecipeNode.
RemoveRecipeNodeAssert(G, recipeNodeIndex) == recipeNodeIndex < Len(G.nodes)

removeRecipeNode(G, g, recipeNodeIndex) ==
  IF ~RemoveRecipeNodeAssert(G, recipeNodeIndex) THEN G
  ELSE
    LET recipeNode == At(G.nodes, recipeNodeIndex)
        name == G.heap[recipeNode].name
        h1 == UnlinkLeft(G.heap, G.heap[recipeNode].leftNeighbors, recipeNode)
        h2 == UnlinkRight(h1, G.heap[recipeNode].rightNeighbors, recipeNode)
        G1 == [G EXCEPT !.heap = h2,
                        !.nodes = Splice1(@, recipeNodeIndex),
                        !.recipeNodes = [n \in DOMAIN @ \ {name} |-> @[n]]]
        recipe == Recipes(g)[name]
    IN Prune(G1, CascadeThings(recipe))

\* ------------------------------------------- addRecipe, after nextTick
\* offsetWidth / offsetHeight of the element rendered at a position.
OffsetWidth(elements, i) == At(elements, i).offsetWidth
OffsetHeight(elements, i) == At(elements, i).offsetHeight

\* The top a sibling pushes the node down to: its bottom edge plus the gap.
SiblingBottom_NoGap(siblingTop, siblingHeight) == siblingTop + siblingHeight
SiblingBottom_Top(siblingTop, siblingHeight) == siblingTop
SiblingBottom(siblingTop, siblingHeight) ==
  siblingTop + siblingHeight + Px(SiblingGap)

\* node.top: the lowest of the neighbors' tops, pushed below every sibling.
NodeTop_NoSiblings(neighborTops, siblingBottoms) == Max(neighborTops)
NodeTop(neighborTops, siblingBottoms) == Max(neighborTops \cup siblingBottoms)

\* node.left, from the lefts of the lower-indexed right neighbors and the
\* right edges of the lower-indexed left neighbors (one of them at least).
NodeLeft_NoGap(rightLefts, leftRights, ownWidth) ==
  IF leftRights = {} THEN Min(rightLefts) - ownWidth
  ELSE IF rightLefts = {} THEN Max(leftRights)
  ELSE Half(Min(rightLefts) + Max(leftRights)) - Half(ownWidth)
NodeLeft(rightLefts, leftRights, ownWidth) ==
  IF leftRights = {} THEN Min(rightLefts) - ownWidth - Px(NeighborGap)
  ELSE IF rightLefts = {} THEN Max(leftRights) + Px(NeighborGap)
  ELSE Half(Min(rightLefts) + Max(leftRights)) - Half(ownWidth)

\* The test of the first-node rule: the node is the first of the sequence.
FirstNode_Never(nodeIndex) == FALSE
FirstNode(nodeIndex) == nodeIndex = 0

\* The body of the positioning loop for one entry of nodesToPosition.
\* thrown: an assertion failed or an undefined element or node was read;
\* the loop and the continuation end there.
PositionNode(G, elements, containerWidth, nodeIndex) ==
  IF nodeIndex >= Len(G.nodes) \/ nodeIndex >= Len(elements)
  THEN [heap |-> G.heap, thrown |-> TRUE]
  ELSE
    LET node == At(G.nodes, nodeIndex)
        Lower(index) == index < nodeIndex
        leftNeighborIndexes ==
          SelectSeq([k \in 1..Len(G.heap[node].leftNeighbors) |->
                       IndexOf(G.nodes, G.heap[node].leftNeighbors[k])], Lower)
        rightNeighborIndexes ==
          SelectSeq([k \in 1..Len(G.heap[node].rightNeighbors) |->
                       IndexOf(G.nodes, G.heap[node].rightNeighbors[k])], Lower)
        Left(index) == G.heap[At(G.nodes, index)].left
        Top(index) == G.heap[At(G.nodes, index)].top
        newLeft ==
          NodeLeft({Left(right) : right \in Range(rightNeighborIndexes)},
                   {Left(left) + OffsetWidth(elements, left) :
                      left \in Range(leftNeighborIndexes)},
                   OffsetWidth(elements, nodeIndex))
        neighborTops ==
          {Top(index) : index \in Range(leftNeighborIndexes) \cup Range(rightNeighborIndexes)}
        \* siblings reached through the right neighbors, then through the left ones
        siblings ==
          UNION {Range(G.heap[At(G.nodes, right)].leftNeighbors) :
                   right \in Range(rightNeighborIndexes)}
          \cup
          UNION {Range(G.heap[At(G.nodes, left)].rightNeighbors) :
                   left \in Range(leftNeighborIndexes)}
        lowerSiblings == {sibling \in siblings : IndexOf(G.nodes, sibling) < nodeIndex}
        siblingBottoms ==
          {SiblingBottom(G.heap[sibling].top,
                         OffsetHeight(elements, IndexOf(G.nodes, sibling))) :
             sibling \in {x \in lowerSiblings : IndexOf(G.nodes, x) >= 0}}
    IN IF FirstNode(nodeIndex)
       THEN [heap |-> [G.heap EXCEPT
                         ![node].left = Half(containerWidth) - Half(OffsetWidth(elements, 0)),
                         ![node].top = Px(TopMargin),
                         ![node].positioned = @ + 1],
             thrown |-> FALSE]
       ELSE IF \/ Len(leftNeighborIndexes) = 0 /\ Len(rightNeighborIndexes) = 0
               \/ -1 \in Range(leftNeighborIndexes) \cup Range(rightNeighborIndexes)
       THEN [heap |-> G.heap, thrown |-> TRUE]
       ELSE [heap |-> [G.heap EXCEPT
                         ![node].left = newLeft,
                         ![node].top = NodeTop(neighborTops, siblingBottoms),
                         ![node].positioned = @ + 1],
             thrown |-> \E sibling \in lowerSiblings : IndexOf(G.nodes, sibling) < 0]

\* for (const nodeIndex of nodesToPosition) { ... }
RECURSIVE PositionNodes(_, _, _, _)
PositionNodes(G, elements, containerWidth, nodesToPosition) ==
  IF nodesToPosition = <<>> THEN G
  ELSE
    LET step == PositionNode(G, elements, containerWidth, Head(nodesToPosition))
        G1 == [G EXCEPT !.heap = step.heap]
    IN IF step.thrown THEN G1
       ELSE PositionNodes(G1, elements, containerWidth, Tail(nodesToPosition))

\* What follows `await nextTick()` in one call of addRecipe.
Continuation_Reversed(G, elements, containerWidth, nodesToPosition) ==
  PositionNodes(G, elements, containerWidth,
                [k \in 1..Len(nodesToPosition) |->
                   nodesToPosition[Len(nodesToPosition) + 1 - k]])
Continuation_Never(G, elements, containerWidth, nodesToPosition) == G
Continuation(G, elements, containerWidth, nodesToPosition) ==
  PositionNodes(G, elements, containerWidth, nodesToPosition)

\* The continuations waiting for the tick, oldest first.
RECURSIVE RunPending(_, _, _, _)
RunPending(G, elements, containerWidth, waiting) ==
  IF waiting = <<>> THEN G
  ELSE RunPending(Continuation(G, elements, containerWidth, Head(waiting)),
                  elements, containerWidth, Tail(waiting))

\* ---------------------------------------------------------- render pass
\* The arrays [orig, dest] the two loops of the pass create, in the order
\* they create them: for each node, one per left neighbor, then one per
\* right neighbor.
EdgeArrays(G) ==
  LET Index(node) == IndexOf(G.nodes, node)
      F[k \in 0..Len(G.nodes)] ==
        IF k = 0 THEN <<>>
        ELSE LET node == G.nodes[k]
                 lefts == G.heap[node].leftNeighbors
                 rights == G.heap[node].rightNeighbors
             IN F[k - 1]
                  \o [j \in 1..Len(lefts) |-> <<Index(lefts[j]), Index(node)>>]
                  \o [j \in 1..Len(rights) |-> <<Index(node), Index(rights[j])>>]
  IN F[Len(G.nodes)]

\* Set.prototype.add: a value is held once; an array is an object, and two
\* objects are the same value when they are the same object.
SetAdd(edges, entry) ==
  IF \E i \in 1..Len(edges) : edges[i].object = entry.object
  THEN edges ELSE Append(edges, entry)

\* edges, in iteration (insertion) order; the k-th array created is object k.
RenderEdges(G) ==
  LET arrays == EdgeArrays(G)
      E[k \in 0..Len(arrays)] ==
        IF k = 0 THEN <<>>
        ELSE SetAdd(E[k - 1], [object |-> k, orig |-> arrays[k][1], dest |-> arrays[k][2]])
  IN E[Len(arrays)]

\* ctx.clearRect(...); ctx.beginPath(): what is left of the previous path.
BeginPath_Keep(path) == path
BeginPath(path) == <<>>

\* The callback of the watcher: the path stroked on the canvas, one curve
\* from orig to dest for each entry of edges; unchanged when there is no
\* canvas or the elements are not those of the nodes.
RenderPass_AnyElements(canvas, G, elements, path) ==
  IF canvas
  THEN LET edges == RenderEdges(G)
       IN BeginPath(path) \o [i \in 1..Len(edges) |-> <<edges[i].orig, edges[i].dest>>]
  ELSE path
RenderPass(canvas, G, elements, path) ==
  IF canvas /\ Len(elements) = Len(G.nodes)
  THEN LET edges == RenderEdges(G)
       IN BeginPath(path) \o [i \in 1..Len(edges) |-> <<edges[i].orig, edges[i].dest>>]
  ELSE path

\* What a pass that draws reads of each node: nodes[i].left, nodes[i].top,
\* elements[i].offsetWidth, elements[i].offsetHeight; unchanged when the
\* pass does not draw.
RenderBoxes_NotDeep(canvas, G, elements, read) ==
  IF canvas /\ Len(elements) = Len(G.nodes) /\ Len(read) # Len(G.nodes)
  THEN [i \in 1..Len(G.nodes) |->
          <<G.heap[G.nodes[i]].left, G.heap[G.nodes[i]].top,
            elements[i].offsetWidth, elements[i].offsetHeight>>]
  ELSE read
RenderBoxes(canvas, G, elements, read) ==
  IF canvas /\ Len(elements) = Len(G.nodes)
  THEN [i \in 1..Len(G.nodes) |->
          <<G.heap[G.nodes[i]].left, G.heap[G.nodes[i]].top,
            elements[i].offsetWidth, elements[i].offsetHeight>>]
  ELSE read

\* ctx.moveTo(...); ctx.bezierCurveTo(...) for one entry [orig, dest] of
\* edges: the start point, the two control points and the end point.
Curve_FromLeft(read, orig, dest) ==
  LET O == At(read, orig)
      D == At(read, dest)
  IN << O[1], O[2] + Half(O[4]),
        O[1] + Px(ControlOffset), O[2] + Half(O[4]),
        D[1] - Px(ControlOffset), D[2] + Half(D[4]),
        D[1], D[2] + Half(D[4]) >>
Curve(read, orig, dest) ==
  LET O == At(read, orig)
      D == At(read, dest)
  IN << O[1] + O[3], O[2] + Half(O[4]),
        O[1] + O[3] + Px(ControlOffset), O[2] + Half(O[4]),
        D[1] - Px(ControlOffset), D[2] + Half(D[4]),
        D[1], D[2] + Half(D[4]) >>

\* The picture on the canvas: the points of each curve of the path.
Picture == [k \in 1..Len(drawn) |-> Curve(boxes, drawn[k][1], drawn[k][2])]

\* -------------------------------------------------------------- actions
NoGraph == [nodes |-> <<>>, heap |-> EmptyMap, recipeNodes |-> EmptyMap,
            thingNodes |-> EmptyMap]
Before == [nodes |-> nodes, heap |-> heap, recipeNodes |-> recipeNodes,
           thingNodes |-> thingNodes]
NoPointer == <<0, 0>>
\* last, after a handler that reads and writes nothing of the graph.
Other == [op |-> "other", name |-> "", index |-> -1, side |-> "",
          pointer |-> NoPointer, before |-> NoGraph]

\* <canvas v-if="width !== 0 && height !== 0">, as of the last render.
Canvas == width # 0 /\ height # 0

\* The render of the last tick shows the current nodes and no addRecipe
\* call waits for its tick: the microtasks of the last handler are done,
\* and the next event can be dispatched.
Flushed_Always == TRUE
Flushed ==
  /\ pending = <<>>
  /\ [i \in 1..Len(nodeElements) |-> nodeElements[i].node] = nodes

\* Node objects still referenced: those of the sequence and the dragged one.
Live(h, sequence, mv) ==
  [id \in DOMAIN h \cap (Range(sequence) \cup {mv.node}) |-> h[id]]

Init ==
  /\ game \in GameNames
  /\ nodes = <<>>
  /\ heap = EmptyMap
  /\ recipeNodes = EmptyMap
  /\ thingNodes = EmptyMap
  /\ nextId = 0
  /\ nodeElements = <<>>
  /\ width = 0
  /\ height = 0
  /\ initialWatch = TRUE
  /\ moving = NotMoving
  /\ pending = <<>>
  /\ drags = 0
  /\ drawn = <<>>
  /\ boxes = <<>>
  /\ createdBy = EmptyMap
  /\ last = [op |-> "init", name |-> "", index |-> -1, side |-> "",
             pointer |-> NoPointer, before |-> NoGraph]

\* The graph a handler leaves, and the call of addRecipe it made, if any;
\* the watcher of the render pass runs on it before the template is
\* rendered again.
Commit(G, call, made) ==
  /\ nodes' = G.nodes
  /\ drawn' = RenderPass(Canvas, G, nodeElements, drawn)
  /\ boxes' = RenderBoxes(Canvas, G, nodeElements, boxes)
  /\ \E live \in {Live(G.heap, G.nodes, moving)} :
       /\ heap' = live
       /\ createdBy' =
            [id \in DOMAIN live |->
               IF id \in DOMAIN createdBy THEN createdBy[id] ELSE made.node]
  /\ recipeNodes' = G.recipeNodes
  /\ thingNodes' = G.thingNodes
  /\ nextId' = G.nextId
  /\ pending' = IF call THEN Append(pending, made.nodesToPosition) ELSE pending

\* stopInitialWatch(): whether the watcher of the size is still active.
StopInitialWatch_Missing == TRUE
StopInitialWatch == FALSE

\* useElementSize(container) reports a new size; the first time both are
\* non-zero the initial watcher stops itself and calls reset().
Resize(size) ==
  /\ Flushed
  /\ size # <<width, height>>
  /\ size \in UnmeasuredSizes => initialWatch
  /\ width' = size[1]
  /\ height' = size[2]
  /\ IF initialWatch /\ size[1] # 0 /\ size[2] # 0
     THEN \E call \in {Reset(Graph, game)} :
             /\ call.graph.nextId <= MaxIds
             /\ initialWatch' = StopInitialWatch
             /\ Commit(call.graph, TRUE,
                       [node |-> nextId, nodesToPosition |-> call.nodesToPosition])
             /\ last' = [op |-> "reset", name |-> DefaultRecipe, index |-> -1,
                         side |-> "", pointer |-> NoPointer, before |-> Before]
     ELSE /\ UNCHANGED <<nodes, heap, recipeNodes, thingNodes, nextId, pending,
                         createdBy, initialWatch>>
          \* the canvas follows the container, and its new size runs the pass
          /\ drawn' = RenderPass(Canvas, Graph, nodeElements, drawn)
          /\ boxes' = RenderBoxes(Canvas, Graph, nodeElements, boxes)
          /\ last' = Other
  /\ UNCHANGED <<game, nodeElements, moving, drags>>

\* watch(() => props.game, reset): the game is replaced.
SwapGame(g) ==
  /\ Flushed
  /\ game' = g
  /\ \E call \in {Reset(Graph, g)} :
        /\ call.graph.nextId <= MaxIds
        /\ Commit(call.graph, TRUE,
                  [node |-> nextId, nodesToPosition |-> call.nodesToPosition])
  /\ last' = [op |-> "reset", name |-> DefaultRecipe, index |-> -1, side |-> "",
              pointer |-> NoPointer, before |-> Before]
  /\ UNCHANGED <<nodeElements, width, height, initialWatch, moving, drags>>

\* <div v-if="moving !== null" class="frontdrop">, as of the last render.
Frontdrop_Always == TRUE
Frontdrop == moving # NotMoving

\* The buttons of the template exist on the nodes of the last render; the
\* frontdrop covers the nodes while it exists.
ButtonsReachable == Flushed /\ ~Frontdrop

\* What startMoving(nodeIndex, e) stores in moving.
Captured(nodeIndex, pointer) ==
  [node |-> At(nodes, nodeIndex),
   element |-> nodeIndex,
   initialX |-> heap[At(nodes, nodeIndex)].left,
   initialY |-> heap[At(nodes, nodeIndex)].top,
   startX |-> pointer[1],
   startY |-> pointer[2]]

\* @pointerdown.stop on a button: the pointerdown of a press on the button
\* is not handed to the @pointerdown of the node around it.
PointerdownStop_Missing == FALSE
PointerdownStop == TRUE

\* The pointerdown of a press on a button of the node at nodeIndex.
PressButton(nodeIndex) ==
  moving' = IF PointerdownStop THEN moving
            ELSE Captured(nodeIndex, CHOOSE pointer \in GrabPositions : TRUE)

\* A press on a '+' of a thing node.  :disabled="recipe === null": a
\* disabled button has no click; otherwise the click calls addRecipe(recipe).
ClickAdd(nodeIndex, side, recipe) ==
  /\ PressButton(nodeIndex)
  /\ IF recipe = ""
     THEN /\ UNCHANGED <<nodes, heap, recipeNodes, thingNodes, nextId, pending,
                         drawn, boxes, createdBy>>
          /\ last' = [op |-> "disabled", name |-> "", index |-> -1, side |-> "",
                      pointer |-> NoPointer, before |-> Before]
     ELSE /\ \E call \in {AddRecipe(Graph, game, recipe)} :
               /\ call.graph.nextId <= MaxIds
               /\ Commit(call.graph, ~call.thrown,
                         [node |-> nextId, nodesToPosition |-> call.nodesToPosition])
          /\ last' = [op |-> "addRecipe", name |-> recipe, index |-> nodeIndex,
                      side |-> side, pointer |-> NoPointer, before |-> Before]
  /\ UNCHANGED <<game, nodeElements, width, height, initialWatch, drags>>

\* The left '+' of a thing node: addRecipe(findRecipeProducing(name)).
ClickAddLeft(nodeIndex) ==
  /\ ButtonsReachable
  /\ nodeIndex \in 0..(Len(nodes) - 1)
  /\ heap[At(nodes, nodeIndex)].kind = "thing"
  /\ ClickAdd(nodeIndex, "left",
              findRecipeProducing(Graph, game, heap[At(nodes, nodeIndex)].name))

\* The right '+' of a thing node: addRecipe(findRecipeConsuming(name)).
ClickAddRight(nodeIndex) ==
  /\ ButtonsReachable
  /\ nodeIndex \in 0..(Len(nodes) - 1)
  /\ heap[At(nodes, nodeIndex)].kind = "thing"
  /\ ClickAdd(nodeIndex, "right",
              findRecipeConsuming(Graph, game, heap[At(nodes, nodeIndex)].name))

\* The 'X' of a recipe node: removeRecipeNode(nodeIndex).
ClickRemove(nodeIndex) ==
  /\ ButtonsReachable
  /\ nodeIndex \in 0..(Len(nodes) - 1)
  /\ heap[At(nodes, nodeIndex)].kind = "recipe"
  /\ PressButton(nodeIndex)
  /\ \E G \in {removeRecipeNode(Graph, game, nodeIndex)} :
       Commit(G, FALSE, [node |-> -1])
  /\ last' = [op |-> "removeRecipeNode", name |-> heap[At(nodes, nodeIndex)].name,
              index |-> nodeIndex, side |-> "", pointer |-> NoPointer,
              before |-> Before]
  /\ UNCHANGED <<game, nodeElements, width, height, initialWatch, drags>>

\* The tick after a handler: the template is rendered again, every node
\* has an element with the box of its kind, the addRecipe calls that
\* were waiting assign the positions, and the render pass has run on the
\* result.
Flush ==
  /\ ~Flushed
  /\ LET elements ==
           [i \in 1..Len(nodes) |->
              [node |-> nodes[i],
               offsetWidth |-> ElementSizes[heap[nodes[i]].kind][1],
               offsetHeight |-> ElementSizes[heap[nodes[i]].kind][2]]]
     IN \E G \in {RunPending(Graph, elements, width, pending)} :
          /\ nodeElements' = elements
          /\ heap' = G.heap
          /\ drawn' = RenderPass(Canvas, G, elements, drawn)
          /\ boxes' = RenderBoxes(Canvas, G, elements, boxes)
  /\ pending' = <<>>
  /\ UNCHANGED <<game, nodes, recipeNodes, thingNodes, nextId, width, height,
                 initialWatch, moving, drags, createdBy, last>>

\* The element of the template at a position; an element that is not
\* rendered any more has no box.
ElementWidth(slot) ==
  IF slot < Len(nodeElements) THEN OffsetWidth(nodeElements, slot) ELSE 0
ElementHeight(slot) ==
  IF slot < Len(nodeElements) THEN OffsetHeight(nodeElements, slot) ELSE 0

\* pointerdown on a node (not on one of its buttons): startMoving.
StartMoving(nodeIndex, pointer) ==
  /\ ButtonsReachable
  /\ drags < MaxDrags
  /\ nodeIndex \in 0..(Len(nodes) - 1)
  /\ moving' = Captured(nodeIndex, pointer)
  /\ drags' = drags + 1
  /\ last' = Other
  /\ UNCHANGED <<game, nodes, heap, recipeNodes, thingNodes, nextId, nodeElements,
                 width, height, initialWatch, pending, drawn, boxes, createdBy>>

\* Math.min(Math.max(0, value), upper)
Clamp_NoUpper(value, upper) == IF value > 0 THEN value ELSE 0
Clamp(value, upper) ==
  LET atLeast == IF value > 0 THEN value ELSE 0
  IN IF atLeast < upper THEN atLeast ELSE upper

\* move(e): the positions move() assigns to the dragged node.
MovedLeft_Incremental(pointer) ==
  Clamp(heap[moving.node].left + pointer[1] - moving.startX,
        width - ElementWidth(moving.element))
MovedLeft(pointer) ==
  Clamp(moving.initialX + pointer[1] - moving.startX, width - ElementWidth(moving.element))
MovedTop(pointer) ==
  Clamp(moving.initialY + pointer[2] - moving.startY, height - ElementHeight(moving.element))

\* The entry assertion of move.
MoveAssert == moving # NotMoving

\* pointermove on the frontdrop: move(e).  A failed assertion throws
\* before anything is written.
Move(pointer) ==
  /\ Flushed
  /\ Frontdrop
  /\ IF ~MoveAssert
     THEN /\ UNCHANGED <<heap, drawn, boxes>>
          /\ last' = [op |-> "moveThrown", name |-> "", index |-> -1, side |-> "",
                      pointer |-> pointer, before |-> NoGraph]
     ELSE \E moved \in {[heap EXCEPT ![moving.node].left = MovedLeft(pointer),
                                     ![moving.node].top = MovedTop(pointer)]} :
            /\ heap' = moved
            /\ drawn' = RenderPass(Canvas, [Graph EXCEPT !.heap = moved],
                                   nodeElements, drawn)
            /\ boxes' = RenderBoxes(Canvas, [Graph EXCEPT !.heap = moved],
                                    nodeElements, boxes)
            /\ last' = [op |-> "move", name |-> "", index |-> -1, side |-> "",
                        pointer |-> pointer, before |-> NoGraph]
  /\ UNCHANGED <<game, nodes, recipeNodes, thingNodes, nextId, nodeElements,
                 width, height, initialWatch, moving, pending, drags, createdBy>>

\* pointerup or pointerleave on the frontdrop: stopMoving.
StopMoving ==
  /\ Flushed
  /\ Frontdrop
  /\ moving' = NotMoving
  /\ heap' = Live(heap, nodes, NotMoving)
  /\ createdBy' = [id \in DOMAIN Live(heap, nodes, NotMoving) |-> createdBy[id]]
  /\ last' = Other
  /\ UNCHANGED <<game, nodes, recipeNodes, thingNodes, nextId, nodeElements,
                 width, height, initialWatch, pending, drags, drawn, boxes>>

Next ==
  \/ \E size \in ContainerSizes : Resize(size)
  \/ \E g \in GameNames : SwapGame(g)
  \/ \E nodeIndex \in 0..(Len(nodes) - 1) : ClickAddLeft(nodeIndex)
  \/ \E nodeIndex \in 0..(Len(nodes) - 1) : ClickAddRight(nodeIndex)
  \/ \E nodeIndex \in 0..(Len(nodes) - 1) : ClickRemove(nodeIndex)
  \/ Flush
  \/ \E nodeIndex \in 0..(Len(nodes) - 1), pointer \in GrabPositions :
       StartMoving(nodeIndex, pointer)
  \/ \E pointer \in PointerPositions : Move(pointer)
  \/ StopMoving

Spec == Init /\ [][Next]_vars

\* The tick of a handler always comes: microtasks run before the next event.
\* This is weak fairness of Flush, with ENABLED <<Flush>>_vars written as
\* the guard of Flush: a Flush step is possible exactly when ~Flushed.
LiveSpec == Spec /\ ([]<>Flushed \/ []<><<Flush>>_vars)

\* addRecipe(recipeName) called directly, with any recipe of the game,
\* between two events.
CallAddRecipe(recipeName) ==
  /\ Flushed
  /\ \E call \in {AddRecipe(Graph, game, recipeName)} :
       /\ call.graph.nextId <= MaxIds
       /\ Commit(call.graph, ~call.thrown,
                 [node |-> nextId, nodesToPosition |-> call.nodesToPosition])
  /\ last' = [op |-> "addRecipe", name |-> recipeName, index |-> -1,
              side |-> "call", pointer |-> NoPointer, before |-> Before]
  /\ UNCHANGED <<game, nodeElements, width, height, initialWatch, moving, drags>>

\* The functions of the component called as functions: addRecipe with any
\* recipe name, removeRecipeNode through the 'X', reset through the
\* watchers, and the tick after each.
NextCalls ==
  \/ \E size \in ContainerSizes \cup UnmeasuredSizes : Resize(size)
  \/ \E g \in GameNames : SwapGame(g)
  \/ \E recipeName \in DOMAIN Recipes(game) : CallAddRecipe(recipeName)
  \/ \E nodeIndex \in 0..(Len(nodes) - 1) : ClickRemove(nodeIndex)
  \/ Flush

SpecCalls == Init /\ [][NextCalls]_vars

\* ================================================================ claims
\* Vocabulary of the claims.
InGraph == Range(nodes)
Neighbors(h, id) == Range(h[id].leftNeighbors) \cup Range(h[id].rightNeighbors)
NodesOfKind(h, sequence, kind) == {id \in Range(sequence) : h[id].kind = kind}
PositionsOf(kind, name) ==
  {i \in 1..Len(nodes) : heap[nodes[i]].kind = kind /\ heap[nodes[i]].name = name}

\* C1 -- Uniqueness: the node sequence never holds two nodes of kind
\* 'thing' with the same thing name, nor two nodes of kind 'recipe' with
\* the same recipe name.
C1_Uniqueness ==
  \A i, j \in 1..Len(nodes) :
    (/\ heap[nodes[i]].kind = heap[nodes[j]].kind
     /\ heap[nodes[i]].name = heap[nodes[j]].name) => i = j

\* An addRecipe call found the node of one of its things already there.
C1_Witness ==
  /\ last.op = "addRecipe"
  /\ last.name \in DOMAIN recipeNodes
  /\ \E thing \in DOMAIN last.before.thingNodes :
       thing \in Range(Recipes(game)[last.name].ingredients)
                   \cup Range(Recipes(game)[last.name].products)

\* C2 -- Adjacency symmetry: for all nodes A and B of the graph, A is in
\* B.leftNeighbors if and only if B is in A.rightNeighbors.
C2_AdjacencySymmetry ==
  \A a, b \in InGraph :
    a \in Range(heap[b].leftNeighbors) <=> b \in Range(heap[a].rightNeighbors)

\* A removal left linked nodes behind, and an insertion linked a product.
C2_Witness ==
  /\ last.op = "addRecipe"
  /\ \E i \in 1..Len(last.before.nodes) :
       /\ last.before.heap[last.before.nodes[i]].kind = "recipe"
       /\ last.before.heap[last.before.nodes[i]].rightNeighbors # <<>>
  /\ heap[recipeNodes[last.name]].rightNeighbors # <<>>
  /\ heap[recipeNodes[last.name]].leftNeighbors # <<>>

\* C3 -- No dangling adjacency: every node referenced from a leftNeighbors
\* or rightNeighbors list of a node of the sequence is in the sequence.
C3_NoDanglingAdjacency ==
  \A a \in InGraph : Neighbors(heap, a) \subseteq InGraph

\* removeRecipeNode removed a recipe and pruned a thing, and nodes with
\* links survive.
C3_Witness ==
  /\ last.op = "removeRecipeNode"
  /\ Len(last.before.nodes) - Len(nodes) >= 2
  /\ \E a \in InGraph : Neighbors(heap, a) # {}

\* C4 -- Cascade pruning: removeRecipeNode(i) removes the recipe node and
\* exactly the thing nodes whose only neighbor was that recipe node; the
\* other nodes stay in the sequence, the other things in the thing index.
C4_SoleNeighborThings ==
  LET removed == At(last.before.nodes, last.index)
  IN {id \in NodesOfKind(last.before.heap, last.before.nodes, "thing") :
        Neighbors(last.before.heap, id) = {removed}}

C4_CascadePruning ==
  last.op = "removeRecipeNode" =>
    LET removed == At(last.before.nodes, last.index)
        kept == Range(last.before.nodes) \ ({removed} \cup C4_SoleNeighborThings)
    IN /\ InGraph = kept
       /\ Len(nodes) = Cardinality(kept)
       /\ DOMAIN thingNodes = {heap[id].name : id \in NodesOfKind(heap, nodes, "thing")}
       /\ \A thing \in DOMAIN thingNodes :
            thingNodes[thing] = last.before.thingNodes[thing]

\* One removal pruned a thing and kept a thing that had another neighbor.
C4_Witness ==
  /\ last.op = "removeRecipeNode"
  /\ C4_SoleNeighborThings # {}
  /\ \E id \in NodesOfKind(heap, nodes, "thing") :
       At(last.before.nodes, last.index) \in Neighbors(last.before.heap, id)

\* C5 -- After each operation, every thing node of the sequence has a
\* neighbor: its leftNeighbors and rightNeighbors are not both empty.
C5_ThingsHaveNeighbors ==
  \A id \in NodesOfKind(heap, nodes, "thing") :
    heap[id].leftNeighbors # <<>> \/ heap[id].rightNeighbors # <<>>

\* A removal took the last neighbor of a thing and left other things.
C5_Witness ==
  /\ last.op = "removeRecipeNode"
  /\ \E id \in NodesOfKind(last.before.heap, last.before.nodes, "thing") :
       /\ Cardinality(Neighbors(last.before.heap, id)) = 1
       /\ id \notin InGraph
  /\ NodesOfKind(heap, nodes, "thing") # {}

\* The dragged node's element box and the position a move asks for.
C6_MaxLeft == width - ElementWidth(moving.element)
C6_MaxTop == height - ElementHeight(moving.element)
C6_AskedLeft == moving.initialX + last.pointer[1] - moving.startX
C6_AskedTop == moving.initialY + last.pointer[2] - moving.startY

\* C6 as stated -- Drag clamp: after move() the dragged node has
\* 0 <= left <= containerWidth - nodeWidth and 0 <= top <= containerHeight
\* - nodeHeight, and a coordinate asked outside that range is exactly 0 or
\* exactly containerSize - nodeSize.
C6_DragClampAsStated ==
  last.op = "move" =>
    /\ 0 <= heap[moving.node].left /\ heap[moving.node].left <= C6_MaxLeft
    /\ 0 <= heap[moving.node].top /\ heap[moving.node].top <= C6_MaxTop
    /\ (C6_AskedLeft < 0 \/ C6_AskedLeft > C6_MaxLeft) =>
         heap[moving.node].left \in {0, C6_MaxLeft}
    /\ (C6_AskedTop < 0 \/ C6_AskedTop > C6_MaxTop) =>
         heap[moving.node].top \in {0, C6_MaxTop}

C6_AxisClamped(coordinate, asked, upper) ==
  IF upper >= 0
  THEN /\ 0 <= coordinate /\ coordinate <= upper
       /\ (asked < 0 \/ asked > upper) => coordinate \in {0, upper}
  ELSE coordinate = upper

\* C6 as amended -- Drag clamp: on an axis where the container is at least
\* as large as the node, the coordinate after move() lies in
\* [0, containerSize - nodeSize] and is exactly 0 or containerSize -
\* nodeSize when the asked value is outside; on an axis where the
\* container is smaller than the node it is containerSize - nodeSize,
\* which is negative.
C6_DragClamp ==
  last.op = "move" =>
    /\ C6_AxisClamped(heap[moving.node].left, C6_AskedLeft, C6_MaxLeft)
    /\ C6_AxisClamped(heap[moving.node].top, C6_AskedTop, C6_MaxTop)

\* A move asked for a position beyond the left border of a container
\* that is wider and higher than the node, and beyond its bottom border.
C6_Witness ==
  /\ last.op = "move"
  /\ C6_MaxLeft >= 0 /\ C6_AskedLeft < 0
  /\ C6_MaxTop >= 0 /\ C6_AskedTop > C6_MaxTop

\* Bounding box of the node at a position of the sequence.
C7_Box(i) ==
  [left |-> heap[At(nodes, i)].left,
   top |-> heap[At(nodes, i)].top,
   right |-> heap[At(nodes, i)].left + OffsetWidth(nodeElements, i),
   bottom |-> heap[At(nodes, i)].top + OffsetHeight(nodeElements, i)]
C7_Overlap(a, b) ==
  /\ a.left < b.right /\ b.left < a.right
  /\ a.top < b.bottom /\ b.top < a.bottom

\* reset() has run in an 800x600 container, its positions are assigned,
\* and the default recipe has two ingredient things and one product thing.
C7_Scenario ==
  /\ last.op = "reset"
  /\ Flushed
  /\ width = Px(800) /\ height = Px(600)
  /\ Len(Recipes(game)[DefaultRecipe].ingredients) = 2
  /\ Len(Recipes(game)[DefaultRecipe].products) = 1
  /\ Cardinality(Range(Recipes(game)[DefaultRecipe].ingredients)
                   \cup Range(Recipes(game)[DefaultRecipe].products)) = 3

\* C7 -- Scenario: addRecipe on an empty graph in an 800x600 container, of
\* a recipe with two ingredient things and one product thing, creates 4
\* nodes; once positioned the recipe node is at left = 400 - width/2,
\* top = 20, both ingredient nodes are entirely left of it, the product
\* node entirely right of it, and no two of the 4 boxes overlap.
C7_FirstRecipeLayout ==
  C7_Scenario =>
    LET recipe == Recipes(game)[DefaultRecipe]
        Position(thing) == IndexOf(nodes, thingNodes[thing])
    IN /\ Len(nodes) = 4
       /\ Cardinality({id \in InGraph : createdBy[id] = At(nodes, 0)}) = 4
       /\ heap[At(nodes, 0)].kind = "recipe"
       /\ C7_Box(0).left = Px(400) - Half(OffsetWidth(nodeElements, 0))
       /\ C7_Box(0).top = Px(20)
       /\ \A thing \in Range(recipe.ingredients) :
            C7_Box(Position(thing)).right <= C7_Box(0).left
       /\ \A thing \in Range(recipe.products) :
            C7_Box(Position(thing)).left >= C7_Box(0).right
       /\ \A i, j \in 0..3 : i # j => ~C7_Overlap(C7_Box(i), C7_Box(j))

\* The scenario, with the second ingredient pushed below the first one.
C7_Witness ==
  /\ C7_Scenario
  /\ C7_Box(2).top >= C7_Box(1).bottom

\* The removed recipe node was the only recipe node, and every other node
\* was the node of one of its ingredients or products.
C8_Scenario ==
  /\ last.op = "removeRecipeNode"
  /\ NodesOfKind(last.before.heap, last.before.nodes, "recipe")
       = {At(last.before.nodes, last.index)}
  /\ \A id \in NodesOfKind(last.before.heap, last.before.nodes, "thing") :
       last.before.heap[id].name
         \in Range(Recipes(game)[last.name].ingredients)
               \cup Range(Recipes(game)[last.name].products)

\* C8 -- Scenario: removeRecipeNode on the recipe node of a graph made of
\* one recipe node and the nodes of its things leaves the node sequence
\* and both name indices empty.
C8_RemoveSoleRecipe ==
  C8_Scenario =>
    /\ nodes = <<>>
    /\ DOMAIN recipeNodes = {}
    /\ DOMAIN thingNodes = {}

\* The scenario on the 4-node graph of the default recipe.
C8_Witness ==
  /\ C8_Scenario
  /\ Len(last.before.nodes) = 4

\* addRecipe(T2) has just run; X is an ingredient of T2 and a product of
\* T1, and the node of X was created by the addRecipe call that created
\* the node recipe1 of T1, which was in the graph when T2 was added.
C9_Reuse(X, recipe1) ==
  /\ last.op = "addRecipe"
  /\ last.name \notin DOMAIN last.before.recipeNodes
  /\ X \in Range(Recipes(game)[last.name].ingredients)
  /\ X \in DOMAIN last.before.thingNodes
  /\ last.before.thingNodes[X] \in DOMAIN createdBy
  /\ createdBy[last.before.thingNodes[X]] = recipe1
  /\ recipe1 \in Range(last.before.nodes)
  /\ X \in Range(Recipes(game)[last.before.heap[recipe1].name].products)

\* no second node for X, and the node of X where it was
C9_SameNode(X) ==
  /\ Cardinality(PositionsOf("thing", X)) = 1
  /\ thingNodes[X] = last.before.thingNodes[X]
  /\ thingNodes[X] \in InGraph
  /\ heap[thingNodes[X]].left = last.before.heap[thingNodes[X]].left
  /\ heap[thingNodes[X]].top = last.before.heap[thingNodes[X]].top

\* C9 as stated -- Node reuse: addRecipe(T2) after addRecipe(T1) created
\* the node of X creates no second node for X, leaves its position, and
\* X's node has exactly one entry T1 in leftNeighbors and exactly one
\* entry T2 in rightNeighbors.
C9_NodeReuseAsStated ==
  \A X \in ThingNames(game), recipe1 \in DOMAIN heap :
    C9_Reuse(X, recipe1) =>
      /\ C9_SameNode(X)
      /\ Count(heap[thingNodes[X]].leftNeighbors, recipe1) = 1
      /\ Count(heap[thingNodes[X]].rightNeighbors, recipeNodes[last.name]) = 1

\* C9 as amended -- Node reuse: addRecipe(T2) after addRecipe(T1) created
\* the node of X creates no second node for X, leaves its position, and
\* X's node has one entry T1 in leftNeighbors per occurrence of X among
\* T1's products and one entry T2 in rightNeighbors per occurrence of X
\* among T2's ingredients.
C9_NodeReuse ==
  \A X \in ThingNames(game), recipe1 \in DOMAIN heap :
    C9_Reuse(X, recipe1) =>
      /\ C9_SameNode(X)
      /\ Count(heap[thingNodes[X]].leftNeighbors, recipe1)
           = Count(Recipes(game)[last.before.heap[recipe1].name].products, X)
      /\ Count(heap[thingNodes[X]].rightNeighbors, recipeNodes[last.name])
           = Count(Recipes(game)[last.name].ingredients, X)

\* The reuse case has happened and the new recipe has its position.
C9_Witness ==
  /\ Flushed
  /\ \E X \in ThingNames(game), recipe1 \in DOMAIN heap : C9_Reuse(X, recipe1)

\* C10 -- Topology completeness: a recipe node has the node of each of its
\* ingredients that has one in leftNeighbors and the node of each of its
\* products that has one in rightNeighbors; a thing node has the node of
\* every present recipe consuming it in rightNeighbors and of every
\* present recipe producing it in leftNeighbors.
C10_TopologyComplete ==
  /\ \A r \in NodesOfKind(heap, nodes, "recipe"), t \in NodesOfKind(heap, nodes, "thing") :
       /\ heap[t].name \in Range(Recipes(game)[heap[r].name].ingredients)
            => t \in Range(heap[r].leftNeighbors)
       /\ heap[t].name \in Range(Recipes(game)[heap[r].name].products)
            => t \in Range(heap[r].rightNeighbors)
  /\ \A t \in NodesOfKind(heap, nodes, "thing"), r \in NodesOfKind(heap, nodes, "recipe") :
       /\ heap[r].name \in Range(IngredientOf(game, heap[t].name))
            => r \in Range(heap[t].rightNeighbors)
       /\ heap[r].name \in Range(ProductOf(game, heap[t].name))
            => r \in Range(heap[t].leftNeighbors)

\* After a removal, a thing of the removed recipe is still there with
\* another recipe that consumes it.
C10_Witness ==
  /\ last.op = "removeRecipeNode"
  /\ \E t \in NodesOfKind(heap, nodes, "thing"), r \in NodesOfKind(heap, nodes, "recipe") :
       /\ heap[t].name \in Range(Recipes(game)[last.name].ingredients)
                            \cup Range(Recipes(game)[last.name].products)
       /\ heap[r].name \in Range(IngredientOf(game, heap[t].name))

\* The left-to-right adjacencies of the graph, as pairs of sequence indices.
LinkedPairs ==
  {pair \in (0..(Len(nodes) - 1)) \X (0..(Len(nodes) - 1)) :
     nodes[pair[2] + 1] \in Range(heap[nodes[pair[1] + 1]].rightNeighbors)}

\* C11 -- Deduplicated edges, as stated: after a render pass on the current
\* graph, the drawn curves are those of the left-to-right adjacencies, one
\* curve per linked pair of nodes.
C11_EdgesDeduplicated ==
  (Flushed /\ Canvas) =>
     /\ Range(drawn) = LinkedPairs
     /\ \A pair \in LinkedPairs : Count(drawn, pair) = 1

\* C12 -- Idempotent render: once the tick of the last handler is over, a
\* second render pass on the unchanged state draws what the last one drew,
\* and what is drawn is what a pass draws on an empty canvas: a function of
\* the graph and the elements only.
C12_IdempotentRender ==
  Flushed =>
    /\ RenderPass(Canvas, Graph, nodeElements, drawn) = drawn
    /\ Canvas => drawn = RenderPass(TRUE, Graph, nodeElements, <<>>)

\* A pass has drawn the curves of a graph with links, and the last handler
\* was one that runs the pass again on the same node sequence.
C12_Witness ==
  /\ Flushed /\ Canvas
  /\ drawn # <<>>
  /\ last.op = "move"

\* The node objects the last handler created and left in the sequence.
CreatedByLast == Range(nodes) \ DOMAIN last.before.heap

\* C13 -- addRecipe(name) called while a recipe node of that name exists
\* throws on its entry assertion: the node sequence, both name indices,
\* every adjacency list and every position are those of before the call,
\* and no continuation waits for the tick.
C13_ExistingRecipeRejected ==
  (last.op = "addRecipe" /\ last.name \in DOMAIN last.before.recipeNodes) =>
     /\ Before = last.before
     /\ pending = <<>>

\* addRecipe was called with the name of a recipe that has a node, on a
\* graph whose nodes have been positioned.
C13_Witness ==
  /\ last.op = "addRecipe"
  /\ last.name \in DOMAIN last.before.recipeNodes
  /\ \E id \in InGraph : heap[id].top # 0

\* C14 -- No partial mutation, as stated: once a call of addRecipe and its
\* continuation are over, either the call has failed and the graph is that
\* of before the call, or every node it created has its position assigned.
C14_NoPartialMutation ==
  (Flushed /\ last.op = "addRecipe") =>
     \/ Before = last.before
     \/ \A id \in CreatedByLast : heap[id].positioned = 1

\* C15 -- Two-phase insertion: while a call of addRecipe waits for its
\* tick, the nodes it created are in the sequence, linked, and not yet
\* positioned; a position is assigned to a node only by the waiting call,
\* once, at a tick where the node has an element; after the tick every
\* node of the sequence has been positioned exactly once; and a waiting
\* call is always followed by a state where it has positioned its nodes.
C15_TwoPhaseInsertion ==
  /\ [](pending # <<>> =>
          /\ Len(pending) = 1
          /\ \A i \in Range(pending[1]) :
                /\ i < Len(nodes)
                /\ heap[At(nodes, i)].positioned = 0
                /\ Neighbors(heap, At(nodes, i)) # {})
  /\ [][\A id \in DOMAIN heap' :
          (id \in DOMAIN heap /\ heap'[id].positioned # heap[id].positioned) =>
             /\ pending # <<>> /\ pending' = <<>>
             /\ heap[id].positioned = 0 /\ heap'[id].positioned = 1
             /\ \E i \in Range(pending[1]) :
                   /\ i < Len(nodeElements')
                   /\ nodeElements'[i + 1].node = id]_vars
  /\ [](Flushed => \A id \in InGraph : heap[id].positioned = 1)
  /\ (pending # <<>>) ~>
        (pending = <<>> /\ \A id \in InGraph : heap[id].positioned = 1)

\* A call made from a '+' button has created nodes, has waited for its
\* tick and has positioned them.
C15_Witness ==
  /\ Flushed
  /\ last.op = "addRecipe"
  /\ CreatedByLast # {}
  /\ \A id \in CreatedByLast : heap[id].positioned = 1 /\ heap[id].left # 0

\* C16 -- While a call of addRecipe waits for its tick, it is the only
\* one waiting and the last handler that ran is the one that made it, so
\* that no addRecipe, removeRecipeNode or reset has run since; the indices
\* it captured denote, in order, exactly the nodes it created, which follow
\* in the sequence the nodes that were there before the call.
C16_NoMutationWhileWaiting ==
  pending # <<>> =>
    /\ Len(pending) = 1
    /\ last.op \in {"addRecipe", "reset"}
    /\ \A k \in 1..Len(pending[1]) :
          /\ pending[1][k] < Len(nodes)
          /\ At(nodes, pending[1][k]) \in CreatedByLast
          /\ createdBy[At(nodes, pending[1][k])] = At(nodes, pending[1][1])
          /\ \A j \in 1..(k - 1) : pending[1][j] < pending[1][k]
    /\ {At(nodes, i) : i \in Range(pending[1])} = CreatedByLast
    /\ last.op = "addRecipe" =>
          SubSeq(nodes, 1, Len(last.before.nodes)) = last.before.nodes

\* A call made from a '+' button on a graph with several nodes waits for
\* its tick with more than one index captured.
C16_Witness ==
  /\ pending # <<>>
  /\ last.op = "addRecipe"
  /\ Len(last.before.nodes) >= 3
  /\ Len(pending[1]) >= 2

C18_ButtonsDoNotDrag ==
  last.op \in {"addRecipe", "removeRecipeNode", "disabled"} => moving = NotMoving

\* The 'X' of a recipe node has been pressed after an earlier drag had
\* ended, and no drag has started.
C18_Witness ==
  /\ last.op = "removeRecipeNode"
  /\ drags >= 1
  /\ moving = NotMoving

\* The list of recipes behind a '+' of the thing named X.
C19_List(side, X) ==
  IF side = "left" THEN ProductOf(game, X) ELSE IngredientOf(game, X)

\* The name of the thing node whose '+' the last click was on.
C19_Clicked == last.before.heap[At(last.before.nodes, last.index)].name

\* C19 -- The '+' buttons: a click on the left (right) '+' of the node of
\* thing X has called addRecipe with the first entry of X.productOf
\* (X.ingredientOf) that had no node; whenever the buttons can be pressed,
\* a '+' is disabled exactly when every recipe of its list has a node; and
\* a press on a disabled '+' changes nothing.
C19_PlusButtons ==
  /\ (last.op = "addRecipe" /\ last.side \in {"left", "right"}) =>
        LET list == C19_List(last.side, C19_Clicked)
        IN \E k \in 1..Len(list) :
             /\ list[k] = last.name
             /\ list[k] \notin DOMAIN last.before.recipeNodes
             /\ \A j \in 1..(k - 1) : list[j] \in DOMAIN last.before.recipeNodes
  /\ ButtonsReachable =>
        \A X \in DOMAIN thingNodes :
          /\ findRecipeProducing(Graph, game, X) = ""
                <=> Range(ProductOf(game, X)) \subseteq DOMAIN recipeNodes
          /\ findRecipeConsuming(Graph, game, X) = ""
                <=> Range(IngredientOf(game, X)) \subseteq DOMAIN recipeNodes
  /\ last.op = "disabled" => (Before = last.before /\ pending = <<>>)

\* A '+' has added a recipe that was not the first of its list, the
\* earlier ones having a node already.
C19_Witness ==
  /\ last.op = "addRecipe"
  /\ last.side \in {"left", "right"}
  /\ C19_List(last.side, C19_Clicked)[1] # last.name
  /\ last.name \in DOMAIN recipeNodes

\* The distinct things of the default recipe of the current game.
C20_Things ==
  Range(Recipes(game)[DefaultRecipe].ingredients)
    \cup Range(Recipes(game)[DefaultRecipe].products)

\* C20 -- Reset: after a reset (the game was replaced, or the container
\* got its first size) and until the next handler, whatever the graph was
\* before, the graph holds the node of the default recipe and one thing
\* node for each distinct ingredient or product of it, the two indices
\* hold exactly these, and no node of the previous graph is in the
\* sequence or in an adjacency list.
C20_Reset ==
  last.op = "reset" =>
    /\ Len(nodes) = 1 + Cardinality(C20_Things)
    /\ DOMAIN recipeNodes = {DefaultRecipe}
    /\ recipeNodes[DefaultRecipe] = nodes[1]
    /\ heap[nodes[1]].kind = "recipe" /\ heap[nodes[1]].name = DefaultRecipe
    /\ DOMAIN thingNodes = C20_Things
    /\ \A X \in C20_Things :
          /\ thingNodes[X] \in Range(Tail(nodes))
          /\ heap[thingNodes[X]].kind = "thing" /\ heap[thingNodes[X]].name = X
    /\ \A id \in InGraph :
          /\ id \notin DOMAIN last.before.heap
          /\ Neighbors(heap, id) \subseteq InGraph

\* The game has been replaced while a node of the previous graph was
\* being dragged and had been moved.
C20_Witness ==
  /\ last.op = "reset"
  /\ moving # NotMoving
  /\ moving.node \in Range(last.before.nodes)
  /\ last.before.heap[moving.node].left # moving.initialX

\* C21 -- Preconditions by construction: whenever the buttons can be
\* pressed, the recipe an enabled '+' would pass to addRecipe has no node,
\* and every 'X' is on a recipe node whose index is valid; and after every
\* click the entry assertion of the function it called had held: the added
\* recipe had no node and has one now, the removed index was that of a
\* recipe node, which is gone now.
C21_PreconditionsHold ==
  /\ ButtonsReachable =>
        /\ \A X \in DOMAIN thingNodes :
              \A recipe \in {findRecipeProducing(Graph, game, X),
                              findRecipeConsuming(Graph, game, X)} \ {""} :
                /\ recipe \in DOMAIN Recipes(game)
                /\ AddRecipeAssert(Graph, recipe)
        /\ \A nodeIndex \in 0..(Len(nodeElements) - 1) :
              heap[nodeElements[nodeIndex + 1].node].kind = "recipe" =>
                /\ RemoveRecipeNodeAssert(Graph, nodeIndex)
                /\ heap[At(nodes, nodeIndex)].kind = "recipe"
  /\ last.op = "addRecipe" =>
        /\ last.name \notin DOMAIN last.before.recipeNodes
        /\ last.name \in DOMAIN recipeNodes
        /\ recipeNodes[last.name] \in CreatedByLast
  /\ last.op = "removeRecipeNode" =>
        /\ last.index \in 0..(Len(last.before.nodes) - 1)
        /\ last.before.heap[At(last.before.nodes, last.index)].kind = "recipe"
        /\ last.before.heap[At(last.before.nodes, last.index)].name = last.name
        /\ At(last.before.nodes, last.index) \notin InGraph
        /\ last.name \notin DOMAIN recipeNodes

\* The 'X' of a recipe node that is not the first node has been clicked,
\* after a '+' had added that recipe.
C21_Witness ==
  /\ last.op = "removeRecipeNode"
  /\ last.index >= 3
  /\ nodes # <<>>

\* The things of a list that have no node yet, each once, in list order.
RECURSIVE C22_Fresh(_, _)
C22_Fresh(list, present) ==
  IF list = <<>> THEN <<>>
  ELSE IF Head(list) \in present THEN C22_Fresh(Tail(list), present)
  ELSE <<Head(list)>> \o C22_Fresh(Tail(list), present \cup {Head(list)})

\* The things that had a node when the last call of addRecipe started;
\* reset calls it on the emptied graph.
C22_Present == IF last.op = "reset" THEN {} ELSE DOMAIN last.before.thingNodes
C22_First == IF last.op = "reset" THEN 0 ELSE Len(last.before.nodes)

\* C22 -- Positioning order: the indices a call of addRecipe captured are
\* the consecutive indices of the nodes it appended: the recipe node, then
\* a node for each ingredient that had none, in ingredient order, then one
\* for each product that had none, in product order; and after the tick
\* each of them has been positioned once, after its lower-indexed
\* neighbors: none lies above a lower-indexed neighbor.
C22_PositioningOrder ==
  last.op \in {"addRecipe", "reset"} =>
    LET recipe == Recipes(game)[last.name]
        ingredients == C22_Fresh(recipe.ingredients, C22_Present)
        products == C22_Fresh(recipe.products, C22_Present \cup Range(ingredients))
        created == <<last.name>> \o ingredients \o products
    IN /\ Len(nodes) = C22_First + Len(created)
       /\ \A k \in 1..Len(created) :
             /\ heap[nodes[C22_First + k]].name = created[k]
             /\ heap[nodes[C22_First + k]].kind = IF k = 1 THEN "recipe" ELSE "thing"
       /\ pending # <<>> =>
             pending[1] = [k \in 1..Len(created) |-> C22_First + k - 1]
       /\ Flushed =>
             \A k \in 1..Len(created) :
               LET N == nodes[C22_First + k]
               IN /\ heap[N].positioned = 1
                  /\ \A j \in 1..(C22_First + k - 1) :
                        nodes[j] \in Neighbors(heap, N) =>
                          /\ heap[nodes[j]].positioned = 1
                          /\ heap[N].top >= heap[nodes[j]].top

\* A '+' has added a recipe with a new ingredient to a graph that had
\* nodes, and the tick has positioned the two new nodes.
C22_Witness ==
  /\ last.op = "addRecipe"
  /\ Flushed
  /\ last.before.nodes # <<>>
  /\ Len(nodes) = Len(last.before.nodes) + 2
  /\ heap[nodes[Len(nodes)]].rightNeighbors = <<nodes[Len(nodes) - 1]>>

\* ---------------------------------------------- placement by addRecipe
\* Sequence indices of the nodes the last call of addRecipe created, once
\* its continuation has run and nothing has happened since.
Placed ==
  IF Flushed /\ last.op \in {"addRecipe", "reset"}
  THEN {i \in 0..(Len(nodes) - 1) : At(nodes, i) \in CreatedByLast}
  ELSE {}
\* Lower-indexed left and right neighbors of the node at index i, and its
\* lower-indexed siblings: the other nodes adjacent to those neighbors on
\* the side the node is on.
LowerLeft(i) ==
  {j \in 0..(i - 1) : At(nodes, j) \in Range(heap[At(nodes, i)].leftNeighbors)}
LowerRight(i) ==
  {j \in 0..(i - 1) : At(nodes, j) \in Range(heap[At(nodes, i)].rightNeighbors)}
LowerSiblings(i) ==
  {j \in 0..(i - 1) :
     \/ \E r \in LowerRight(i) : At(nodes, j) \in Range(heap[At(nodes, r)].leftNeighbors)
     \/ \E l \in LowerLeft(i) : At(nodes, j) \in Range(heap[At(nodes, l)].rightNeighbors)}
Box(i) ==
  [left |-> heap[At(nodes, i)].left,
   top |-> heap[At(nodes, i)].top,
   width |-> At(nodeElements, i).offsetWidth,
   height |-> At(nodeElements, i).offsetHeight]
\* The coordinates the neighbor-based rule gives the node at index i.
GeneralLeft(i) ==
  LET leftmostLeft == Min({Box(r).left : r \in LowerRight(i)})
      rightmostRight == Max({Box(l).left + Box(l).width : l \in LowerLeft(i)})
  IN IF LowerRight(i) = {} THEN rightmostRight + Px(50)
     ELSE IF LowerLeft(i) = {} THEN leftmostLeft - Box(i).width - Px(50)
     ELSE Half(leftmostLeft + rightmostRight) - Half(Box(i).width)
GeneralTop(i) ==
  Max({Box(n).top : n \in LowerLeft(i) \cup LowerRight(i)}
        \cup {Box(s).top + Box(s).height + Px(20) : s \in LowerSiblings(i)})

\* C23 -- First-node rule: a node created by addRecipe is placed at
\* left = containerWidth/2 - ownWidth/2, top = 20 if and only if it is the
\* recipe node of a call made on an empty graph, which is when its
\* sequence index is 0; every other created node has a lower-indexed
\* neighbor and is placed where the neighbor-based rule puts it.
C23_FirstNodeRule ==
  \A i \in Placed :
    /\ i = 0 <=> /\ heap[At(nodes, i)].kind = "recipe"
                 /\ last.op = "addRecipe" => last.before.nodes = <<>>
                 /\ At(nodes, i) = recipeNodes[last.name]
    /\ i = 0 => /\ Box(i).left = Half(width) - Half(Box(i).width)
                /\ Box(i).top = Px(20)
    /\ i # 0 => /\ LowerLeft(i) \cup LowerRight(i) # {}
                /\ Box(i).left = GeneralLeft(i)
                /\ Box(i).top = GeneralTop(i)
\* reset() placed its recipe node in the narrow container, and its other
\* nodes by the general rule.
C23_Witness ==
  /\ Placed = 0..3
  /\ last.op = "reset"
  /\ width = Px(60)

\* C24 -- Horizontal rule: for a created node N that is not the first
\* node, over its lower-indexed neighbors at positioning time: with left
\* neighbors only, N.left = max(left + width) + 50; with right neighbors
\* only, N.left = min(left) - N.width - 50; with both, N is centered on
\* the midpoint of that min and that max.
C24_HorizontalRule ==
  \A i \in Placed \ {0} :
    LET leftmostLeft == Min({Box(r).left : r \in LowerRight(i)})
        rightmostRight == Max({Box(l).left + Box(l).width : l \in LowerLeft(i)})
    IN /\ (LowerLeft(i) # {} /\ LowerRight(i) = {}) =>
            Box(i).left = rightmostRight + Px(50)
       /\ (LowerLeft(i) = {} /\ LowerRight(i) # {}) =>
            Box(i).left = leftmostLeft - Box(i).width - Px(50)
       /\ (LowerLeft(i) # {} /\ LowerRight(i) # {}) =>
            2 * Box(i).left + Box(i).width = leftmostLeft + rightmostRight
\* A recipe node was placed between a lower-indexed left neighbor and a
\* lower-indexed right neighbor that had been dragged apart.
C24_Witness ==
  \E i \in Placed \ {0} :
    /\ LowerLeft(i) # {} /\ LowerRight(i) # {}
    /\ \E l \in LowerLeft(i), r \in LowerRight(i) : Box(l).top # Box(r).top

\* C25 -- For every addRecipe reachable through the UI or reset, every
\* created node whose sequence index is not 0 has a left or right neighbor
\* of strictly lower index when it is positioned, so the assertion of the
\* positioning loop never fails: every created node gets its position.
C25_LowerNeighborExists ==
  /\ \A c \in 1..Len(pending) : \A k \in 1..Len(pending[c]) :
       LET i == pending[c][k]
       IN /\ i < Len(nodes)
          /\ i # 0 => LowerLeft(i) \cup LowerRight(i) # {}
  /\ \A i \in Placed :
       /\ i # 0 => LowerLeft(i) \cup LowerRight(i) # {}
       /\ heap[At(nodes, i)].positioned = 1
\* A '+' added a recipe next to its product: the recipe node was placed
\* from that thing, and the new ingredient from the new recipe node alone.
C25_Witness ==
  /\ last.op = "addRecipe" /\ last.side = "left"
  /\ \E i \in Placed :
       /\ heap[At(nodes, i)].kind = "thing"
       /\ LowerLeft(i) = {}
       /\ LowerRight(i) = {i - 1}
       /\ i - 1 \in Placed
       /\ LowerLeft(i - 1) = {}

\* C26 -- Vertical rule: the top assigned to a created node N of index > 0
\* is the maximum of the tops of N's lower-indexed neighbors and of
\* sibling.top + sibling.height + 20 over N's lower-indexed siblings (the
\* nodes adjacent to one of N's lower-indexed neighbors on the side N is
\* on); hence N is at least 20 below the bottom edge of each of them.
C26_VerticalRule ==
  \A i \in Placed \ {0} :
    LET tops == {Box(n).top : n \in LowerLeft(i) \cup LowerRight(i)}
        bottoms == {Box(s).top + Box(s).height + Px(20) : s \in LowerSiblings(i)}
    IN /\ Box(i).top \in tops \cup bottoms
       /\ \A t \in tops \cup bottoms : Box(i).top >= t
       /\ \A s \in LowerSiblings(i) :
            Box(i).top - (Box(s).top + Box(s).height) >= Px(20)
\* A thing node was stacked under a lower-indexed sibling while the
\* neighbor they share is higher up.
C26_Witness ==
  \E i \in Placed \ {0} : \E s \in LowerSiblings(i) :
    /\ heap[At(nodes, i)].kind = "thing"
    /\ Box(i).top = Box(s).top + Box(s).height + Px(20)
    /\ \A n \in LowerLeft(i) \cup LowerRight(i) : Box(n).top < Box(i).top

\* The top of the node at index i before any sibling is looked at, and
\* whether a box of that node put at top t shares a vertical extent with
\* the box of the node at index s.
C27_NeighborTop(i) == Max({Box(n).top : n \in LowerLeft(i) \cup LowerRight(i)})
C27_VerticalOverlap(i, t, s) ==
  t < Box(s).top + Box(s).height /\ Box(s).top < t + Box(i).height

\* C27 as stated -- Sibling push is conditional on overlap: a sibling
\* that the new node would not vertically overlap does not change the new
\* node's top; so a node none of whose lower-indexed siblings it would
\* overlap keeps the top its neighbors give it.
C27_PushOnlyOnOverlap ==
  \A i \in Placed \ {0} :
    (\A s \in LowerSiblings(i) : ~C27_VerticalOverlap(i, C27_NeighborTop(i), s))
      => Box(i).top = C27_NeighborTop(i)

\* C27 -- Sibling push: a lower-indexed sibling moves the new node's top
\* down to that sibling's bottom edge plus 20 whenever the top would
\* otherwise be above that line, whether or not the two boxes would
\* overlap; only a sibling whose bottom edge plus 20 is not below the top
\* the neighbors give leaves it unchanged.
C27_PushBelowEverySibling ==
  \A i \in Placed \ {0} :
    LET pushing == {s \in LowerSiblings(i) :
                      Box(s).top + Box(s).height + Px(20) > C27_NeighborTop(i)}
    IN /\ pushing = {} => Box(i).top = C27_NeighborTop(i)
       /\ pushing # {} =>
            Box(i).top = Max({Box(s).top + Box(s).height + Px(20) : s \in pushing})
\* A node was put under a sibling that lies entirely below the place its
\* neighbors give it.
C27_Witness ==
  \E i \in Placed \ {0} : \E s \in LowerSiblings(i) :
    /\ Box(s).top >= C27_NeighborTop(i) + Box(i).height
    /\ Box(i).top = Box(s).top + Box(s).height + Px(20)

\* The nodes that were in the sequence before the last addRecipe or
\* removeRecipeNode and still are.
C28_Surviving ==
  IF last.op \in {"addRecipe", "removeRecipeNode"}
  THEN Range(nodes) \cap Range(last.before.nodes)
  ELSE {}

\* C28 as stated -- Permanent sequence index: the index a node receives in
\* `nodes` when it is created stays the same for as long as that node
\* exists, across any later addRecipe and removeRecipeNode on other nodes.
C28_PermanentIndex ==
  \A n \in C28_Surviving : IndexOf(nodes, n) = IndexOf(last.before.nodes, n)

\* C28 -- Sequence index: a later addRecipe leaves the index of every
\* existing node unchanged; a later removeRecipeNode lowers the index of a
\* surviving node by the number of removed nodes that preceded it, so the
\* surviving nodes keep their relative order and the indices stay 0..n-1.
C28_IndexShiftsOnRemoval ==
  /\ last.op = "addRecipe" =>
       \A n \in C28_Surviving : IndexOf(nodes, n) = IndexOf(last.before.nodes, n)
  /\ last.op = "removeRecipeNode" =>
       \A n \in C28_Surviving :
         IndexOf(nodes, n) =
           IndexOf(last.before.nodes, n)
             - Cardinality({m \in Range(last.before.nodes) \ Range(nodes) :
                              IndexOf(last.before.nodes, m) < IndexOf(last.before.nodes, n)})
\* A recipe node was removed with two of its things, and a recipe node
\* that follows the three of them came down by 3.
C28_Witness ==
  /\ last.op = "removeRecipeNode"
  /\ \E n \in C28_Surviving :
       /\ heap[n].kind = "recipe"
       /\ IndexOf(last.before.nodes, n) - IndexOf(nodes, n) = 3

\* The ingredient and product things of the recipe of a recipe node.
C29_ThingsOf(recipeNode) ==
  Range(Recipes(game)[heap[recipeNode].name].ingredients)
    \cup Range(Recipes(game)[heap[recipeNode].name].products)

\* C29 -- Recipe nodes are never auto-pruned: in every step, a recipe node
\* leaves the node sequence only through removeRecipeNode called on its
\* own index or through reset; a recipe node that stays keeps the node of
\* each of its ingredients and products, whatever else is removed.
C29_RecipeNodesStay ==
  [][\A R \in Range(nodes) :
       heap[R].kind = "recipe" =>
         IF R \in Range(nodes')
         THEN \A thing \in C29_ThingsOf(R) :
                /\ thing \in DOMAIN thingNodes'
                /\ thingNodes'[thing] = thingNodes[thing]
                /\ thingNodes[thing] \in Range(nodes')
         ELSE \/ last'.op = "reset"
              \/ /\ last'.op = "removeRecipeNode"
                 /\ last'.index = IndexOf(nodes, R)]_vars
\* A recipe was removed and another recipe that has a thing in common with
\* it is still there, while a thing of the removed recipe alone is gone.
C29_Witness ==
  /\ last.op = "removeRecipeNode"
  /\ \E R \in Range(nodes) :
       /\ heap[R].kind = "recipe"
       /\ C29_ThingsOf(R)
            \cap (Range(Recipes(game)[last.name].ingredients)
                    \cup Range(Recipes(game)[last.name].products)) # {}
  /\ DOMAIN last.before.thingNodes \ DOMAIN thingNodes # {}

\* The boxes of the nodes at indices i and j have a point in common that
\* is on the edge of neither.
C30_Overlap(i, j) ==
  /\ Box(i).left < Box(j).left + Box(j).width
  /\ Box(j).left < Box(i).left + Box(i).width
  /\ Box(i).top < Box(j).top + Box(j).height
  /\ Box(j).top < Box(i).top + Box(i).height

\* C30 -- The placement heuristic is not a general non-overlap guarantee:
\* what it keeps a placed node clear of is its lower-indexed siblings, and
\* its lower-indexed neighbors when they are all on one side; the box of
\* a placed node can overlap the box of any other node, and there are
\* sequences of addRecipe and removeRecipeNode alone after which it does.
C30_OnlySiblingsAvoided ==
  \A i \in Placed : \A j \in 0..(Len(nodes) - 1) \ {i} :
    C30_Overlap(i, j) =>
      /\ j \notin LowerSiblings(i)
      /\ j \in LowerLeft(i) \cup LowerRight(i) =>
           LowerLeft(i) # {} /\ LowerRight(i) # {}
\* No node was ever dragged, and addRecipe has just placed a node on the
\* box of a node an earlier addRecipe had placed.
C30_Witness ==
  /\ drags = 0
  /\ last.op = "addRecipe"
  /\ \E i \in Placed : \E j \in 0..(i - 1) :
       /\ C30_Overlap(i, j)
       /\ heap[At(nodes, j)].positioned = 1

\* The picture is the one a pass draws from the current state: the curves
\* of the current adjacency, at the current positions, for the elements of
\* the current nodes.
C31_Fresh ==
  /\ Flushed
  /\ drawn = RenderPass(TRUE, Graph, nodeElements, <<>>)
  /\ boxes = RenderBoxes(TRUE, Graph, nodeElements, <<>>)

\* C31 -- Render liveness: after any change of the node sequence, of a
\* node's position, of the measured elements or of the canvas size, a
\* render pass eventually runs that clears the surface and draws the edges
\* of the then-current adjacency and positions: while there is a canvas,
\* the tick of every handler comes, again and again, and after each tick
\* the picture is the one of the current state; it never stays stale for
\* ever.
C31_RenderLiveness ==
  /\ []((Canvas /\ Flushed) => C31_Fresh)
  /\ []<>(Canvas => Flushed)
\* A recipe node has been removed, the elements have followed, and the
\* picture is the one of the graph that is left, which has edges.
C31_Witness ==
  /\ last.op = "removeRecipeNode"
  /\ Canvas
  /\ C31_Fresh
  /\ drawn # <<>>
  /\ Len(boxes) < Len(last.before.nodes)

\* C32 -- Every drawn edge goes from a node O to a node D with D in
\* O.rightNeighbors, starts at O's right-center anchor (O.left + O.width,
\* O.top + O.height/2), ends at D's left-center anchor (D.left,
\* D.top + D.height/2), and uses the control points (start.x + 50, start.y)
\* and (end.x - 50, end.y).
C32_EdgeGeometry ==
  (Flushed /\ Canvas) =>
    \A k \in 1..Len(drawn) :
      LET orig == drawn[k][1]
          dest == drawn[k][2]
      IN /\ orig \in 0..(Len(nodes) - 1)
         /\ dest \in 0..(Len(nodes) - 1)
         /\ At(nodes, dest) \in Range(heap[At(nodes, orig)].rightNeighbors)
         /\ LET O == Box(orig)
                D == Box(dest)
                startX == O.left + O.width
                startY == O.top + Half(O.height)
                endX == D.left
                endY == D.top + Half(D.height)
            IN /\ 2 * startY = 2 * O.top + O.height
               /\ 2 * endY = 2 * D.top + D.height
               /\ Picture[k] = << startX, startY, startX + Px(50), startY,
                                   endX - Px(50), endY, endX, endY >>
\* A node that is the origin of a drawn edge has just been dragged down.
C32_Witness ==
  /\ Flushed /\ Canvas
  /\ last.op = "move"
  /\ heap[moving.node].top > moving.initialY
  /\ \E k \in 1..Len(drawn) : At(nodes, drawn[k][1]) = moving.node

\* min(max(0, asked), upper)
C33_Clamped(asked, upper) ==
  LET atLeast == IF asked < 0 THEN 0 ELSE asked
  IN IF upper < atLeast THEN upper ELSE atLeast
\* The position the last move asked for: the position captured at
\* pointer-down plus the way of the pointer since pointer-down.
C33_Left ==
  C33_Clamped(moving.initialX + last.pointer[1] - moving.startX,
              width - ElementWidth(moving.element))
C33_Top ==
  C33_Clamped(moving.initialY + last.pointer[2] - moving.startY,
              height - ElementHeight(moving.element))
C33_PointerBack == last.pointer = <<moving.startX, moving.startY>>

\* C33 as stated -- Drag is path-independent: after a move the dragged
\* node is at clamp(position at pointer-down + (pointer - pointer at
\* pointer-down)), whatever the moves before; in particular moving the
\* pointer back to its starting coordinates restores the initial position.
C33_PathIndependentAsStated ==
  last.op = "move" =>
    /\ heap[moving.node].left = C33_Left
    /\ heap[moving.node].top = C33_Top
    /\ C33_PointerBack =>
         /\ heap[moving.node].left = moving.initialX
         /\ heap[moving.node].top = moving.initialY

\* C33 -- Drag is path-independent: after a move the dragged node is at
\* clamp(position at pointer-down + (pointer - pointer at pointer-down)),
\* whatever the moves before; moving the pointer back to its starting
\* coordinates restores each initial coordinate that lies in the clamp
\* range [0, containerSize - nodeSize], and clamps the others.
C33_PathIndependent ==
  last.op = "move" =>
    /\ heap[moving.node].left = C33_Left
    /\ heap[moving.node].top = C33_Top
    /\ C33_PointerBack =>
         /\ (0 <= moving.initialX
               /\ moving.initialX <= width - ElementWidth(moving.element))
              => heap[moving.node].left = moving.initialX
         /\ (0 <= moving.initialY
               /\ moving.initialY <= height - ElementHeight(moving.element))
              => heap[moving.node].top = moving.initialY
\* The pointer is back where it went down, on a node that was inside the
\* container and below the top row, and the node is where it was.
C33_Witness ==
  /\ last.op = "move"
  /\ C33_PointerBack
  /\ 0 <= moving.initialX /\ moving.initialX <= width - ElementWidth(moving.element)
  /\ 0 <= moving.initialY /\ moving.initialY <= height - ElementHeight(moving.element)
  /\ heap[moving.node].left = moving.initialX
  /\ moving.initialY > Px(20)

\* C34 -- The size-triggered reset happens exactly once: it fires at the
\* first size with a width and a height, the watcher of the size is then
\* stopped for good, and no later change of the container size touches
\* the node sequence, the name indices, the adjacency or the positions.
C34_SizeResetOnce ==
  [][/\ ~initialWatch => ~initialWatch'
     /\ initialWatch' => (width' = 0 \/ height' = 0)
     /\ <<width', height'>> # <<width, height>> =>
          IF initialWatch /\ width' # 0 /\ height' # 0
          THEN /\ ~initialWatch'
               /\ last'.op = "reset"
               /\ Range(nodes') \cap Range(nodes) = {}
               /\ nodes' # <<>>
          ELSE /\ nodes' = nodes
               /\ heap' = heap
               /\ recipeNodes' = recipeNodes
               /\ thingNodes' = thingNodes
               /\ pending' = pending]_vars
\* The container is now 60 wide; the first node of the sequence is still
\* centered for a width of 800, and a recipe added since is still there.
C34_Witness ==
  /\ ~initialWatch
  /\ width = Px(60)
  /\ Len(nodes) > 4
  /\ heap[nodes[1]].left = Px(380)
  /\ heap[nodes[1]].positioned = 1
  /\ last.op = "other"

\* C35: the back-references of a made game are consistent.  In the game of
\* the component (made by make) and in every game made by makeGame, a
\* recipe R occurs in X.ingredientOf as many times as the thing X occurs in
\* R.ingredients, and in X.productOf as many times as X occurs in
\* R.products; every thing a recipe refers to is an entry of `things`, and
\* every recipe a thing refers to is an entry of `recipes`.
BackReferences(G) ==
  /\ \A X \in DOMAIN G.things : \A R \in DOMAIN G.recipes :
       /\ Count(G.things[X].ingredientOf, R) = Count(G.recipes[R].ingredients, X)
       /\ Count(G.things[X].productOf, R) = Count(G.recipes[R].products, X)
  /\ \A R \in DOMAIN G.recipes :
       Range(G.recipes[R].ingredients) \cup Range(G.recipes[R].products)
         \subseteq DOMAIN G.things
  /\ \A X \in DOMAIN G.things :
       Range(G.things[X].ingredientOf) \cup Range(G.things[X].productOf)
         \subseteq DOMAIN G.recipes

C35_BackReferences ==
  /\ BackReferences(Games[game])
  /\ \A dataRaw \in DataRaws : BackReferences(makeGame(dataRaw))

\* The component shows a game in which a recipe lists one thing twice among
\* its products, and makeGame has been given a recipe that lists one
\* prototype twice and an unknown one once.
C35_Witness ==
  /\ game = "modded"
  /\ last.op = "reset"
  /\ Count(Games[game].things["electronic-circuit"].productOf, "electronic-circuit") = 2
  /\ \E dataRaw \in DataRaws :
       /\ dataRaw.recipe[1].results = <<"steam", "plate">>
       /\ dataRaw.recipe[1].ingredients = <<"plate", "plate">>
       /\ makeGame(dataRaw).recipes["assemble"].products = <<"plate">>
       /\ Count(makeGame(dataRaw).things["plate"].ingredientOf, "assemble") = 2
       /\ "gear-recycling" \notin DOMAIN makeGame(dataRaw).recipes

\* C36: the render pass draws only when the canvas exists and there are as
\* many node elements as nodes; in a pass that draws, the origin and the
\* destination of every edge are indices of the node sequence (never -1)
\* at which the pass has read the box of an element of the last render.
C36_PassDrew == drawn' # drawn \/ boxes' # boxes
C37_MovesOnlyCreated ==
  (Flushed /\ last.op \in {"addRecipe", "reset"}) =>
    \A id \in Range(nodes) :
      IF id \in DOMAIN last.before.heap
      THEN /\ heap[id].left = last.before.heap[id].left
           /\ heap[id].top = last.before.heap[id].top
           /\ heap[id].positioned = last.before.heap[id].positioned
      ELSE heap[id].positioned = 1

\* A recipe has been added next to a thing node that had been dragged 25 to
\* the left and 70 down of where it was put: the call has linked the node
\* with the recipe node it created and placed, and left it where it was.
C37_Witness ==
  /\ Flushed
  /\ last.op = "addRecipe"
  /\ CreatedByLast # {}
  /\ \E id \in Range(nodes) \cap DOMAIN last.before.heap :
       /\ \E new \in CreatedByLast : id \in Neighbors(heap, new)
       /\ heap[id].left = Px(230)
       /\ heap[id].top = Px(90)
       /\ Len(heap[id].leftNeighbors) + Len(heap[id].rightNeighbors)
            > Len(last.before.heap[id].leftNeighbors)
                + Len(last.before.heap[id].rightNeighbors)

\* C38: the name indices agree with the sequence.  recipeNodes has an
\* entry for a name exactly when the sequence holds a recipe node of that
\* name, thingNodes exactly when it holds a thing node of that name; the
\* entry is that node, which is the only one of its kind and name; a thing
\* and a recipe of one name have two different nodes.
C38_IndexOf(kind) == IF kind = "recipe" THEN recipeNodes ELSE thingNodes
C38_IndexConsistency ==
  /\ \A kind \in {"recipe", "thing"} :
       /\ \A n \in DOMAIN C38_IndexOf(kind) :
            /\ C38_IndexOf(kind)[n] \in Range(nodes)
            /\ heap[C38_IndexOf(kind)[n]].kind = kind
            /\ heap[C38_IndexOf(kind)[n]].name = n
       /\ \A i \in 1..Len(nodes) :
            heap[nodes[i]].kind = kind =>
              /\ heap[nodes[i]].name \in DOMAIN C38_IndexOf(kind)
              /\ C38_IndexOf(kind)[heap[nodes[i]].name] = nodes[i]
              /\ \A j \in 1..Len(nodes) : nodes[j] = nodes[i] => j = i
  /\ \A n \in DOMAIN recipeNodes \cap DOMAIN thingNodes :
       recipeNodes[n] # thingNodes[n]

\* A removal has taken a recipe node and a thing node out of the sequence
\* and of the indices, and has left a thing and a recipe of one name.
C38_Witness ==
  /\ last.op = "removeRecipeNode"
  /\ Len(nodes) + 2 <= Len(last.before.nodes)
  /\ DOMAIN thingNodes # DOMAIN last.before.thingNodes
  /\ DOMAIN recipeNodes \cap DOMAIN thingNodes # {}

\* C39 -- The dragged node is in the graph, as stated: while a drag session
\* is active the node it holds is an element of the node sequence, so that
\* the node a move updates is a node of the sequence.
C39_DraggedNodeInGraph ==
  moving # NotMoving => moving.node \in Range(nodes)

\* The gestures of the component: a press on a '+' or on an 'X', a
\* pointerdown on a node, and the pointer events of the frontdrop.
C40_Gesture ==
  \/ \E nodeIndex \in 0..MaxIds : ClickAddLeft(nodeIndex)
  \/ \E nodeIndex \in 0..MaxIds : ClickAddRight(nodeIndex)
  \/ \E nodeIndex \in 0..MaxIds : ClickRemove(nodeIndex)
  \/ \E nodeIndex \in 0..MaxIds, pointer \in GrabPositions :
       StartMoving(nodeIndex, pointer)
  \/ \E pointer \in PointerPositions : Move(pointer)
  \/ StopMoving

\* C40 -- An empty graph stays empty until a game swap, as stated: while the
\* node sequence is empty no add, remove or drag gesture is enabled, and
\* the only step that makes it non-empty is the reset of a game swap (a
\* reset that comes with no new size of the container).
C40_EmptyUntilGameSwap ==
  [][ nodes = <<>> =>
        /\ ~ENABLED C40_Gesture
        /\ nodes' # <<>> =>
             /\ last'.op = "reset"
             /\ <<width', height'>> = <<width, height>> ]_vars

\* C40, amended: while the node sequence is empty no add, remove or drag
\* gesture is enabled, and the only step that makes it non-empty is a
\* reset: that of a game swap, or that of the first size of the container
\* with a width and a height.
C40_EmptyUntilReset ==
  [][ nodes = <<>> =>
        /\ ~ENABLED C40_Gesture
        /\ nodes' # <<>> =>
             /\ last'.op = "reset"
             /\ \/ <<width', height'>> = <<width, height>>
                \/ width = 0 \/ height = 0 ]_vars

\* The only recipe node has been removed, the graph has been empty, and a
\* reset has filled it again; the pass has drawn the new graph.
C40_Witness ==
  /\ last.op = "reset"
  /\ last.before.nodes = <<>>
  /\ last.before.heap = EmptyMap
  /\ nextId > Len(nodes)
  /\ nodes # <<>>
  /\ Canvas
  /\ drawn # <<>>
====
